---------------------------- MODULE Spec2Model ----------------------------
(***************************************************************************)
(* A model of the XOXNO DEX aggregator contract (rs-aggregator):           *)
(*   - vault.rs      the in-memory balance ledger of one batch             *)
(*   - aggregator.rs the `xo` endpoint: decode, execute, check, fees,      *)
(*                   return                                                *)
(*   - utils.rs      execute_instruction / dispatch_to_proxy / apply_fees  *)
(*   - zap.rs        the pre-swap solver used before add-liquidity         *)
(*                                                                         *)
(* SpecVault drives the ledger alone with arbitrary operation sequences.   *)
(* Spec      drives one `xo` call, with any batch of compact instructions,  *)
(*           from its arguments to its completion or abort.                *)
(***************************************************************************)
EXTENDS Integers, Sequences, FiniteSets, TLC

VARIABLES
    vault,      \* Vault { balances, tokens, prev_result }          vault.rs:12-16
    err,        \* reason of the error that ended the current call, or "none"
    op,         \* SpecVault: the last ledger operation applied [name, token, arg]
    ret,        \* SpecVault: the value the last ledger operation returned
    pre,        \* SpecVault: the ledger as it was before the last operation
    pc,         \* Spec: position of the `xo` call (aggregate)
    batch,      \* Spec: the arguments and the payment of the `xo` call
    ip,         \* Spec: 1-based position of the current compact instruction
    instr,      \* Spec: the decoded current Instruction
    payments,   \* Spec: payments withdrawn from the ledger for the venue call
    back,       \* Spec: back-transfers of the venue call, not yet handled
    storage,    \* Spec: contract storage: static_fee, referral_id_counter,
                \*       referral_config, admin_fees, referrer_balances; the
                \*       two fee maps with their keys in insertion order
    storage_pre,\* Spec: contract storage as committed before the call
    transfers,  \* Spec: payments the call has sent to the caller
    log         \* Spec: the steps the call has taken, in order

ledger_vars == <<op, ret, pre>>
engine_vars == <<pc, batch, ip, instr, payments, back, storage, storage_pre, transfers, log>>
vars == <<vault, err, op, ret, pre,
          pc, batch, ip, instr, payments, back, storage, storage_pre, transfers, log>>

-----------------------------------------------------------------------------
(* Bounds of the model *)

\* Largest balance a ledger entry is allowed to reach in SpecVault.
MaxBalance == 4

-----------------------------------------------------------------------------
(* Identifiers *)

EGLD_000000_TOKEN_IDENTIFIER == "EGLD-000000"
EGLD_TOKEN_IDENTIFIER == "EGLD"

\* The parts-per-million scale: 1,000,000 = 100 %.
PPM_SCALE == 1000000

\* Token identifiers that can live in a ledger.
Tokens == {EGLD_000000_TOKEN_IDENTIFIER, "TKA-111111", "TKB-222222"}

\* Option<Payment>: None is the empty tuple, Some(p) is <<token, amount>>.
None == <<>>
Some(token, amount) == <<token, amount>>

-----------------------------------------------------------------------------
(* The ledger: vault.rs *)

\* The result of a ledger operation: the ledger afterwards, the value returned,
\* and the error signalled ("none" when the operation returned normally).  A
\* signalled error ends the call: the ledger is left as the operation found it.
Ok(v, value) == [vault |-> v, ret |-> value, err |-> "none"]
Fail(v, reason) == [vault |-> v, ret |-> 0, err |-> reason]

\* ManagedMapEncoded put / remove / contains.
MapPut(m, k, x) == [t \in (DOMAIN m) \cup {k} |-> IF t = k THEN x ELSE m[t]]
MapRemove(m, k) == [t \in (DOMAIN m) \ {k} |-> m[t]]
MapContains(m, k) == k \in DOMAIN m

\* ManagedVec::remove(index)
VecRemove(s, i) == [j \in 1..(Len(s) - 1) |-> IF j < i THEN s[j] ELSE s[j + 1]]

\* Vault::new
new == [balances |-> <<>>, tokens |-> <<>>, prev_result |-> None]

\* Vault::set_prev_result
set_prev_result(v, token, amount) == [v EXCEPT !.prev_result = Some(token, amount)]

\* Vault::balance_of: signals "Token not found in vault" for an absent token.
balance_of(v, token) ==
    IF ~MapContains(v.balances, token)
    THEN Fail(v, "TokenNotFound")
    ELSE Ok(v, v.balances[token])

\* Vault::deposit (amount is a NonZeroBigUint)
deposit(v, token, amount) ==
    IF ~MapContains(v.balances, token)
    THEN [v EXCEPT !.tokens = Append(v.tokens, token),
                   !.balances = MapPut(v.balances, token, amount)]
    ELSE [v EXCEPT !.balances = MapPut(v.balances, token, v.balances[token] + amount)]

\* remove_token_entry filling the hole in the list with the last entry.
remove_token_entry_swap(v, token) ==
    LET hits == {i \in 1..Len(v.tokens) : v.tokens[i] = token}
        first == CHOOSE i \in hits : \A j \in hits : i <= j
        n == Len(v.tokens)
    IN  [v EXCEPT !.balances = MapRemove(v.balances, token),
                  !.tokens = IF hits = {} THEN v.tokens
                             ELSE [j \in 1..(n - 1) |->
                                      IF j = first THEN v.tokens[n] ELSE v.tokens[j]]]

\* Vault::remove_token_entry: drops the map entry, then the first list entry equal
\* to the token (if any).
remove_token_entry(v, token) ==
    LET hits == {i \in 1..Len(v.tokens) : v.tokens[i] = token}
        first == CHOOSE i \in hits : \A j \in hits : i <= j
    IN  [v EXCEPT !.balances = MapRemove(v.balances, token),
                  !.tokens = IF hits = {} THEN v.tokens ELSE VecRemove(v.tokens, first)]

\* withdraw without the removal of an exactly depleted entry.
withdraw_keeps_zero(v, token, amount) ==
    LET current == balance_of(v, token)
    IN  IF current.err # "none" THEN Fail(v, current.err)
        ELSE IF current.ret < amount THEN Fail(v, "InsufficientBalance")
        ELSE Ok([v EXCEPT !.balances = MapPut(v.balances, token, current.ret - amount)],
                amount)

\* Vault::withdraw
withdraw(v, token, amount) ==
    LET current == balance_of(v, token)
    IN  IF current.err # "none" THEN Fail(v, current.err)
        ELSE IF current.ret < amount THEN Fail(v, "InsufficientBalance")
        ELSE LET new_balance == current.ret - amount
             IN  IF new_balance = 0
                 THEN Ok(remove_token_entry(v, token), amount)
                 ELSE Ok([v EXCEPT !.balances = MapPut(v.balances, token, new_balance)],
                         amount)

\* Vault::withdraw_all
withdraw_all(v, token) ==
    LET amount == balance_of(v, token)
    IN  IF amount.err # "none" THEN Fail(v, amount.err)
        ELSE IF amount.ret > 0 THEN Ok(remove_token_entry(v, token), amount.ret)
        ELSE Ok(v, amount.ret)

\* ppm_of rounding the fraction up instead of truncating it.
ppm_of_rounds_up(v, token, ppm) ==
    IF ppm > PPM_SCALE THEN Fail(v, "InvalidPpm")
    ELSE LET balance == balance_of(v, token)
         IN  IF balance.err # "none" THEN Fail(v, balance.err)
             ELSE Ok(v, (balance.ret * ppm + PPM_SCALE - 1) \div PPM_SCALE)

\* Vault::ppm_of (ppm is a u32)
ppm_of(v, token, ppm) ==
    IF ppm > PPM_SCALE THEN Fail(v, "InvalidPpm")
    ELSE LET balance == balance_of(v, token)
         IN  IF balance.err # "none" THEN Fail(v, balance.err)
             ELSE Ok(v, (balance.ret * ppm) \div PPM_SCALE)

\* Vault::withdraw_ppm
withdraw_ppm(v, token, ppm) ==
    LET amount == ppm_of(v, token, ppm)
    IN  IF amount.err # "none" THEN Fail(v, amount.err)
        ELSE IF amount.ret > 0 THEN withdraw(v, token, amount.ret)
        ELSE Ok(v, 0)

\* from_payment that also records the deposit as the previous result.
from_payment_as_prev_result(token_identifier, token_nonce, amount) ==
    LET is_egld == \/ token_identifier = ""
                   \/ token_identifier = EGLD_TOKEN_IDENTIFIER
                   \/ token_identifier = EGLD_000000_TOKEN_IDENTIFIER
        token_id == IF is_egld THEN EGLD_000000_TOKEN_IDENTIFIER ELSE token_identifier
    IN  IF token_nonce # 0 THEN Fail(new, "NonFungibleDeposit")
        ELSE IF amount = 0 THEN Fail(new, "ZeroAmountUnwrap")
        ELSE Ok(set_prev_result(deposit(new, token_id, amount), token_id, amount), 0)

\* from_payment that stores every deposit under the identifier it came with.
from_payment_keeps_spelling(token_identifier, token_nonce, amount) ==
    IF token_nonce # 0 THEN Fail(new, "NonFungibleDeposit")
    ELSE IF amount = 0 THEN Fail(new, "ZeroAmountUnwrap")
    ELSE Ok(deposit(new, token_identifier, amount), 0)

\* Vault::from_payment: rejects a non-zero nonce, stores the native coin under
\* EGLD-000000 whatever spelling the payment used, and unwraps the amount as
\* non-zero.
from_payment(token_identifier, token_nonce, amount) ==
    LET is_egld == \/ token_identifier = ""
                   \/ token_identifier = EGLD_TOKEN_IDENTIFIER
                   \/ token_identifier = EGLD_000000_TOKEN_IDENTIFIER
        token_id == IF is_egld THEN EGLD_000000_TOKEN_IDENTIFIER ELSE token_identifier
    IN  IF token_nonce # 0 THEN Fail(new, "NonFungibleDeposit")
        ELSE IF amount = 0 THEN Fail(new, "ZeroAmountUnwrap")
        ELSE Ok(deposit(new, token_id, amount), 0)

\* Vault::has_minimum
has_minimum(v, token, min_amount) ==
    LET b == balance_of(v, token)
    IN  IF b.err # "none" THEN Fail(v, b.err)
        ELSE Ok(v, IF b.ret >= min_amount THEN 1 ELSE 0)

\* Vault::get_all_payments: one payment per entry of the token list, in list
\* order; the amount is unwrapped as non-zero.
get_all_payments(v) ==
    [i \in 1..Len(v.tokens) |->
        <<v.tokens[i],
          IF MapContains(v.balances, v.tokens[i]) THEN v.balances[v.tokens[i]] ELSE 0>>]

-----------------------------------------------------------------------------
(* The compact instruction format and its decoder: types.rs, utils.rs *)

IDX_NONE == 255
IDX_EGLD == 254
IDX_AUTO == 255
MODE_PPM_THRESHOLD == 128

\* The fee ceiling in basis points (crate::constants::TOTAL_FEE, the 10_000 of
\* apply_fees): 10,000 = 100 %.
TOTAL_FEE == 10000

\* enum CompactAction, in the order of its discriminants 0..24.
CompactActions ==
    << "XExchangeSwap", "XExchangeAddLiquidity", "XExchangeRemoveLiquidity",
       "AshSwapPoolSwap", "AshSwapPoolAddLiquidity", "AshSwapPoolRemoveLiquidity",
       "AshSwapV2Swap", "AshSwapV2AddLiquidity", "AshSwapV2RemoveLiquidity",
       "OneDexSwap", "OneDexAddLiquidity", "OneDexRemoveLiquidity",
       "JexSwap", "JexAddLiquidity", "JexRemoveLiquidity",
       "JexStableSwap", "JexStableAddLiquidity", "JexStableRemoveLiquidity",
       "Wrapping", "UnWrapping",
       "XoxnoLiquidStaking", "LXoxnoLiquidStaking", "HatomLiquidStaking",
       "HatomRedeem", "HatomSupply" >>

\* from_u8 accepting one byte too many: 25 is taken for the last action.
CompactAction_from_u8_off_by_one(value) ==
    IF value <= Len(CompactActions) THEN
        [some |-> TRUE,
         val |-> CompactActions[IF value < Len(CompactActions) THEN value + 1 ELSE value]]
    ELSE [some |-> FALSE, val |-> ""]

\* from_u8 without its last arm: 24 is not taken for an action.
CompactAction_from_u8_without_last(value) ==
    IF value < Len(CompactActions) - 1 THEN [some |-> TRUE, val |-> CompactActions[value + 1]]
    ELSE [some |-> FALSE, val |-> ""]

\* CompactAction::from_u8: Some(action) for 0..24, None otherwise.
CompactAction_from_u8(value) ==
    IF value < Len(CompactActions) THEN [some |-> TRUE, val |-> CompactActions[value + 1]]
    ELSE [some |-> FALSE, val |-> ""]

needs_output_token(a) ==
    a \in {"XExchangeSwap", "AshSwapPoolSwap", "OneDexSwap", "JexStableSwap", "HatomSupply"}

is_multi_input_add_liquidity(a) ==
    a \in {"AshSwapPoolAddLiquidity", "AshSwapV2AddLiquidity", "JexStableAddLiquidity"}

needs_output_count(a) ==
    a \in {"AshSwapPoolRemoveLiquidity", "AshSwapV2RemoveLiquidity", "JexStableRemoveLiquidity"}

needs_pair_id(a) == a = "OneDexAddLiquidity"

\* CompactMode::from_u8
CompactMode_from_u8(value) ==
    IF value = 0 THEN [kind |-> "All", idx |-> 0]
    ELSE IF value = 1 THEN [kind |-> "Prev", idx |-> 0]
    ELSE IF value >= MODE_PPM_THRESHOLD THEN [kind |-> "Ppm", idx |-> value - MODE_PPM_THRESHOLD]
    ELSE [kind |-> "Fixed", idx |-> value - 2]

\* A value or a panic: ManagedVec::get panics on an index out of range.
Val(x) == [err |-> "none", val |-> x]
Panic(reason) == [err |-> reason, val |-> 0]

\* ManagedVec::get(idx) on a registry (0-based).
VecGet(vec, idx) ==
    IF idx < Len(vec) THEN Val(vec[idx + 1]) ELSE Panic("IndexOutOfRange")

\* resolve_token / resolve_token_to_id
resolve_token(idx, tokens) ==
    IF idx = IDX_EGLD THEN Val(EGLD_000000_TOKEN_IDENTIFIER) ELSE VecGet(tokens, idx)

\* token_idx_to_buffer
token_idx_to_buffer(idx, tokens) ==
    IF idx = IDX_EGLD THEN Val(EGLD_000000_TOKEN_IDENTIFIER)
    ELSE IF idx = IDX_NONE THEN Val("")
    ELSE VecGet(tokens, idx)

\* A BigUint of the amounts registry is written as its little-endian limbs in
\* base 2^16, so that values of 2^32, of 2^64 and more can be told apart.
LimbBase == 2^16

Limb(big, k) == IF k <= Len(big) THEN big[k] ELSE 0

\* The number a BigUint stands for (for values below 2^31).
RECURSIVE BigUintValue(_)
BigUintValue(big) ==
    IF big = <<>> THEN 0 ELSE big[1] + LimbBase * BigUintValue(Tail(big))

\* BigUint::to_u64: Some(the four low limbs) if the value fits 64 bits.
to_u64(big) ==
    IF \A k \in 1..Len(big) : k > 4 => big[k] = 0
    THEN [some |-> TRUE, val |-> [k \in 1..4 |-> Limb(big, k)]]
    ELSE [some |-> FALSE, val |-> <<0, 0, 0, 0>>]

\* `as u32` on a u64: the low 32 bits, the two low limbs.
as_u32(u64) == u64[1] + LimbBase * u64[2]

\* compact_mode_to_amount_mode: Fixed and Ppm both read the amounts registry;
\* Ppm is `to_u64().unwrap_or(0) as u32`.
compact_mode_to_amount_mode(mode, amounts) ==
    IF mode.kind = "All" THEN Val([kind |-> "All", val |-> 0])
    ELSE IF mode.kind = "Prev" THEN Val([kind |-> "PrevAmount", val |-> 0])
    ELSE LET a == VecGet(amounts, mode.idx)
         IN  IF a.err # "none" THEN a
             ELSE IF mode.kind = "Fixed"
             THEN Val([kind |-> "Fixed", val |-> BigUintValue(a.val)])
             ELSE LET ppm_u64 == IF to_u64(a.val).some THEN to_u64(a.val).val
                                 ELSE <<0, 0, 0, 0>>
                  IN  Val([kind |-> "Ppm", val |-> as_u32(ppm_u64)])

\* build_action_type: the action tag with its embedded parameter (output token,
\* output count or pair id).
build_action_type(compact, byte1, pair_id_or_addr, tokens) ==
    IF needs_output_token(compact) THEN
        LET out_token == resolve_token(byte1, tokens)
        IN  IF out_token.err # "none" THEN out_token
            ELSE Val([tag |-> compact, token |-> out_token.val, n |-> 0])
    ELSE IF needs_output_count(compact) THEN Val([tag |-> compact, token |-> "", n |-> byte1])
    ELSE IF needs_pair_id(compact) THEN
        Val([tag |-> compact, token |-> "", n |-> pair_id_or_addr])
    ELSE Val([tag |-> compact, token |-> "", n |-> 0])

\* One InputArg, or the panic of one of its two lookups (token first).
InputArg(token, mode) ==
    IF token.err # "none" THEN token
    ELSE IF mode.err # "none" THEN mode
    ELSE Val([token |-> token.val, mode |-> mode.val])

\* Some(list) of InputArgs from their lookups, in evaluation order.
SomeInputs(args) ==
    LET bad == {i \in 1..Len(args) : args[i].err # "none"}
    IN  IF bad # {}
        THEN Panic(args[CHOOSE i \in bad : \A j \in bad : i <= j].err)
        ELSE Val([some |-> TRUE, list |-> [i \in 1..Len(args) |-> args[i].val]])

NoInputs == Val([some |-> FALSE, list |-> <<>>])

\* build_inputs: the byte layout depends on the action's category.
build_inputs(compact_action, byte1, byte2, byte3, byte4, tokens, amounts) ==
    IF needs_output_token(compact_action) \/ needs_output_count(compact_action) THEN
        \* [action, out_token | count, in_tok, in_mode, _, addr]
        LET input_mode == CompactMode_from_u8(byte3)
        IN  IF input_mode.kind = "Prev" /\ byte2 = IDX_NONE THEN NoInputs
            ELSE SomeInputs(<< InputArg(token_idx_to_buffer(byte2, tokens),
                                        compact_mode_to_amount_mode(input_mode, amounts)) >>)
    ELSE IF is_multi_input_add_liquidity(compact_action) THEN
        \* [action, tok1, tok2, tok3, shared_mode, addr]
        LET amount_mode == compact_mode_to_amount_mode(CompactMode_from_u8(byte4), amounts)
            in1 == << InputArg(token_idx_to_buffer(byte1, tokens), amount_mode) >>
            in2 == IF byte2 # IDX_NONE
                   THEN << InputArg(token_idx_to_buffer(byte2, tokens), amount_mode) >>
                   ELSE << >>
            in3 == IF byte3 # IDX_NONE
                   THEN << InputArg(token_idx_to_buffer(byte3, tokens), amount_mode) >>
                   ELSE << >>
        IN  IF amount_mode.err # "none" THEN amount_mode
            ELSE SomeInputs(in1 \o in2 \o in3)
    ELSE IF needs_pair_id(compact_action) THEN
        \* [action, tok1, tok2, shared_mode, 0, pair_id]
        LET amount_mode == compact_mode_to_amount_mode(CompactMode_from_u8(byte3), amounts)
        IN  IF amount_mode.err # "none" THEN amount_mode
            ELSE SomeInputs(<< InputArg(token_idx_to_buffer(byte1, tokens), amount_mode),
                               InputArg(token_idx_to_buffer(byte2, tokens), amount_mode) >>)
    ELSE
        \* [action, tok1, mode1, tok2, mode2, addr]
        LET compact_mode1 == CompactMode_from_u8(byte2)
            in1 == << InputArg(token_idx_to_buffer(byte1, tokens),
                               compact_mode_to_amount_mode(compact_mode1, amounts)) >>
            in2 == IF byte3 # IDX_NONE
                   THEN << InputArg(token_idx_to_buffer(byte3, tokens),
                                    compact_mode_to_amount_mode(CompactMode_from_u8(byte4),
                                                                amounts)) >>
                   ELSE << >>
        IN  IF compact_mode1.kind = "Prev" /\ byte1 = IDX_NONE THEN NoInputs
            ELSE SomeInputs(in1 \o in2)

\* decode_compact_instruction: a tuple <<action, byte1, byte2, byte3, byte4,
\* pair_id_or_addr>> against the three registries.
decode_compact_instruction(t, tokens, addresses, amounts) ==
    LET compact_action == CompactAction_from_u8(t[1])
    IN  IF ~compact_action.some THEN Panic("InvalidAction")
        ELSE
        LET action == build_action_type(compact_action.val, t[2], t[6], tokens)
            inputs == build_inputs(compact_action.val, t[2], t[3], t[4], t[5], tokens, amounts)
            address == IF needs_pair_id(compact_action.val) \/ (t[6] % 256) = IDX_AUTO
                       THEN Val([some |-> FALSE, val |-> ""])
                       ELSE LET a == VecGet(addresses, t[6])
                            IN  IF a.err # "none" THEN a
                                ELSE Val([some |-> TRUE, val |-> a.val])
        IN  IF action.err # "none" THEN Panic(action.err)
            ELSE IF inputs.err # "none" THEN Panic(inputs.err)
            ELSE IF address.err # "none" THEN Panic(address.err)
            ELSE Val([action |-> action.val, inputs |-> inputs.val, address |-> address.val])

-----------------------------------------------------------------------------
(* Pre-balancing mathematics: zap.rs *)

MAX_BINARY_SEARCH_ITERATIONS == 128

\* enum FeeMode: OnInput { special_fee_num } | OnOutput { lp_fee_num }
OnInput(special_fee_num) == [kind |-> "OnInput", num |-> special_fee_num]
OnOutput(lp_fee_num) == [kind |-> "OnOutput", num |-> lp_fee_num]

\* simulate_swap_output with the whole input entering the reserve in
\* fee-on-input mode.
simulate_swap_output_full_input(amount_in, reserve_in, reserve_out, fee_num, fee_denom, fee_mode) ==
    IF amount_in = 0 \/ reserve_in = 0 \/ reserve_out = 0 THEN <<0, 0, 0>>
    ELSE IF fee_num > fee_denom THEN <<0, 0, 0>>
    ELSE
    LET fee_factor == fee_denom - fee_num
    IN  IF fee_mode.kind = "OnInput" THEN
            LET numerator == amount_in * fee_factor * reserve_out
                denominator == reserve_in * fee_denom + amount_in * fee_factor
                output == numerator \div denominator
                special_fee == (amount_in * fee_mode.num) \div fee_denom
            IN  <<output, output, amount_in>>
        ELSE
            LET raw_output == (amount_in * reserve_out) \div (reserve_in + amount_in)
                output == (raw_output * fee_factor) \div fee_denom
                lp_fee_factor == fee_denom - fee_mode.num
                amount_out_leaving == (raw_output * lp_fee_factor) \div fee_denom
            IN  <<output, amount_out_leaving, amount_in>>

\* simulate_swap_output whose fee-on-output mode takes the fee of the
\* liquidity providers from the output after fees.
simulate_swap_output_fee_on_net(amount_in, reserve_in, reserve_out, fee_num, fee_denom, fee_mode) ==
    IF amount_in = 0 \/ reserve_in = 0 \/ reserve_out = 0 THEN <<0, 0, 0>>
    ELSE IF fee_num > fee_denom THEN <<0, 0, 0>>
    ELSE
    LET fee_factor == fee_denom - fee_num
    IN  IF fee_mode.kind = "OnInput" THEN
            LET numerator == amount_in * fee_factor * reserve_out
                denominator == reserve_in * fee_denom + amount_in * fee_factor
                output == numerator \div denominator
                special_fee == (amount_in * fee_mode.num) \div fee_denom
            IN  <<output, output, amount_in - special_fee>>
        ELSE
            LET raw_output == (amount_in * reserve_out) \div (reserve_in + amount_in)
                output == (raw_output * fee_factor) \div fee_denom
                lp_fee_factor == fee_denom - fee_mode.num
                amount_out_leaving == (output * lp_fee_factor) \div fee_denom
            IN  <<output, amount_out_leaving, amount_in>>

\* simulate_swap_output: <<output, amount_out_leaving, amount_in_to_reserves>>
simulate_swap_output(amount_in, reserve_in, reserve_out, fee_num, fee_denom, fee_mode) ==
    IF amount_in = 0 \/ reserve_in = 0 \/ reserve_out = 0 THEN <<0, 0, 0>>
    ELSE IF fee_num > fee_denom THEN <<0, 0, 0>>
    ELSE
    LET fee_factor == fee_denom - fee_num
    IN  IF fee_mode.kind = "OnInput" THEN
            LET numerator == amount_in * fee_factor * reserve_out
                denominator == reserve_in * fee_denom + amount_in * fee_factor
                output == numerator \div denominator
                special_fee == (amount_in * fee_mode.num) \div fee_denom
            IN  <<output, output, amount_in - special_fee>>
        ELSE
            LET raw_output == (amount_in * reserve_out) \div (reserve_in + amount_in)
                output == (raw_output * fee_factor) \div fee_denom
                lp_fee_factor == fee_denom - fee_mode.num
                amount_out_leaving == (raw_output * lp_fee_factor) \div fee_denom
            IN  <<output, amount_out_leaving, amount_in>>

\* The loop of binary_search_pre_swap from iteration i on, with the loop's
\* variables as parameters.
RECURSIVE binary_search_loop(_, _, _, _, _, _, _, _, _, _, _, _)
binary_search_loop(i, low, high, best_swap, best_dust, swap_balance, other_balance, reserve_in, reserve_out, fee_num, fee_denom, fee_mode) ==
    IF i >= MAX_BINARY_SEARCH_ITERATIONS \/ high <= low + 1 THEN best_swap
    ELSE
    LET mid == low + ((high - low) \div 2)
        sim == simulate_swap_output(mid, reserve_in, reserve_out, fee_num, fee_denom, fee_mode)
        received == sim[1]
        final_swap_balance == swap_balance - mid
        final_other_balance == other_balance + received
        new_reserve_in == reserve_in + sim[3]
        new_reserve_out == reserve_out - sim[2]
        quote_other_from_swap == (final_swap_balance * new_reserve_out) \div new_reserve_in
        dust == IF quote_other_from_swap <= final_other_balance
                THEN final_other_balance - quote_other_from_swap
                ELSE final_swap_balance
                     - ((final_other_balance * new_reserve_in) \div new_reserve_out)
        better == dust < best_dust
        product_swap == final_swap_balance * new_reserve_out
        product_other == final_other_balance * new_reserve_in
    IN  IF received = 0 THEN
            binary_search_loop(i + 1, mid, high, best_swap, best_dust, swap_balance,
                               other_balance, reserve_in, reserve_out, fee_num, fee_denom,
                               fee_mode)
        ELSE IF product_swap > product_other THEN
            binary_search_loop(i + 1, mid, high,
                               IF better THEN mid ELSE best_swap,
                               IF better THEN dust ELSE best_dust,
                               swap_balance, other_balance, reserve_in, reserve_out,
                               fee_num, fee_denom, fee_mode)
        ELSE IF product_swap < product_other THEN
            binary_search_loop(i + 1, low, mid,
                               IF better THEN mid ELSE best_swap,
                               IF better THEN dust ELSE best_dust,
                               swap_balance, other_balance, reserve_in, reserve_out,
                               fee_num, fee_denom, fee_mode)
        ELSE mid

\* One iteration of the loop that stays at low when the swap returns nothing.
binary_search_iteration_keeps_low(s, c) ==
    IF s.i >= MAX_BINARY_SEARCH_ITERATIONS \/ s.high <= s.low + 1
    THEN [s EXCEPT !.done = TRUE, !.result = s.best_swap, !.evaluated = FALSE]
    ELSE
    LET mid == s.low + ((s.high - s.low) \div 2)
        sim == simulate_swap_output(mid, c.reserve_in, c.reserve_out, c.fee_num, c.fee_denom,
                                    c.fee_mode)
        received == sim[1]
        final_swap_balance == c.swap_balance - mid
        final_other_balance == c.other_balance + received
        new_reserve_in == c.reserve_in + sim[3]
        new_reserve_out == c.reserve_out - sim[2]
        quote_other_from_swap == (final_swap_balance * new_reserve_out) \div new_reserve_in
        dust == IF quote_other_from_swap <= final_other_balance
                THEN final_other_balance - quote_other_from_swap
                ELSE final_swap_balance
                     - ((final_other_balance * new_reserve_in) \div new_reserve_out)
        better == dust < s.best_dust
        product_swap == final_swap_balance * new_reserve_out
        product_other == final_other_balance * new_reserve_in
        t == [s EXCEPT !.i = s.i + 1, !.mid = mid, !.from_low = s.low, !.from_high = s.high]
    IN  IF received = 0
        THEN [t EXCEPT !.low = s.low, !.evaluated = FALSE]
        ELSE
        LET u == [t EXCEPT !.evaluated = TRUE, !.dust = dust,
                           !.best_swap = IF better THEN mid ELSE s.best_swap,
                           !.best_dust = IF better THEN dust ELSE s.best_dust]
        IN  IF product_swap > product_other THEN [u EXCEPT !.low = mid]
            ELSE IF product_swap < product_other THEN [u EXCEPT !.high = mid]
            ELSE [u EXCEPT !.done = TRUE, !.result = mid]

\* One iteration of the loop that takes a midpoint of equal dust for the best.
binary_search_iteration_last_best(s, c) ==
    IF s.i >= MAX_BINARY_SEARCH_ITERATIONS \/ s.high <= s.low + 1
    THEN [s EXCEPT !.done = TRUE, !.result = s.best_swap, !.evaluated = FALSE]
    ELSE
    LET mid == s.low + ((s.high - s.low) \div 2)
        sim == simulate_swap_output(mid, c.reserve_in, c.reserve_out, c.fee_num, c.fee_denom,
                                    c.fee_mode)
        received == sim[1]
        final_swap_balance == c.swap_balance - mid
        final_other_balance == c.other_balance + received
        new_reserve_in == c.reserve_in + sim[3]
        new_reserve_out == c.reserve_out - sim[2]
        quote_other_from_swap == (final_swap_balance * new_reserve_out) \div new_reserve_in
        dust == IF quote_other_from_swap <= final_other_balance
                THEN final_other_balance - quote_other_from_swap
                ELSE final_swap_balance
                     - ((final_other_balance * new_reserve_in) \div new_reserve_out)
        better == dust <= s.best_dust
        product_swap == final_swap_balance * new_reserve_out
        product_other == final_other_balance * new_reserve_in
        t == [s EXCEPT !.i = s.i + 1, !.mid = mid, !.from_low = s.low, !.from_high = s.high]
    IN  IF received = 0
        THEN [t EXCEPT !.low = mid, !.evaluated = FALSE]
        ELSE
        LET u == [t EXCEPT !.evaluated = TRUE, !.dust = dust,
                           !.best_swap = IF better THEN mid ELSE s.best_swap,
                           !.best_dust = IF better THEN dust ELSE s.best_dust]
        IN  IF product_swap > product_other THEN [u EXCEPT !.low = mid]
            ELSE IF product_swap < product_other THEN [u EXCEPT !.high = mid]
            ELSE [u EXCEPT !.done = TRUE, !.result = mid]

\* One pass through the body of the loop of binary_search_pre_swap, on the
\* loop's variables s and the call's values c: the convergence test, the
\* midpoint, its simulation, the best candidate and the new interval.  The
\* record also keeps the interval and the midpoint of the pass, and whether
\* the dust of the midpoint was computed.
binary_search_iteration(s, c) ==
    IF s.i >= MAX_BINARY_SEARCH_ITERATIONS \/ s.high <= s.low + 1
    THEN [s EXCEPT !.done = TRUE, !.result = s.best_swap, !.evaluated = FALSE]
    ELSE
    LET mid == s.low + ((s.high - s.low) \div 2)
        sim == simulate_swap_output(mid, c.reserve_in, c.reserve_out, c.fee_num, c.fee_denom,
                                    c.fee_mode)
        received == sim[1]
        final_swap_balance == c.swap_balance - mid
        final_other_balance == c.other_balance + received
        new_reserve_in == c.reserve_in + sim[3]
        new_reserve_out == c.reserve_out - sim[2]
        quote_other_from_swap == (final_swap_balance * new_reserve_out) \div new_reserve_in
        dust == IF quote_other_from_swap <= final_other_balance
                THEN final_other_balance - quote_other_from_swap
                ELSE final_swap_balance
                     - ((final_other_balance * new_reserve_in) \div new_reserve_out)
        better == dust < s.best_dust
        product_swap == final_swap_balance * new_reserve_out
        product_other == final_other_balance * new_reserve_in
        t == [s EXCEPT !.i = s.i + 1, !.mid = mid, !.from_low = s.low, !.from_high = s.high]
    IN  IF received = 0
        THEN [t EXCEPT !.low = mid, !.evaluated = FALSE]
        ELSE
        LET u == [t EXCEPT !.evaluated = TRUE, !.dust = dust,
                           !.best_swap = IF better THEN mid ELSE s.best_swap,
                           !.best_dust = IF better THEN dust ELSE s.best_dust]
        IN  IF product_swap > product_other THEN [u EXCEPT !.low = mid]
            ELSE IF product_swap < product_other THEN [u EXCEPT !.high = mid]
            ELSE [u EXCEPT !.done = TRUE, !.result = mid]

\* binary_search_pre_swap whose best candidate before the first pass is the
\* whole held amount.
binary_search_pre_swap_from_whole(balance_first, balance_second, reserve_first, reserve_second, fee_num, fee_denom, fee_mode, swap_from_first) ==
    LET swap_balance == IF swap_from_first THEN balance_first ELSE balance_second
        other_balance == IF swap_from_first THEN balance_second ELSE balance_first
        reserve_in == IF swap_from_first THEN reserve_first ELSE reserve_second
        reserve_out == IF swap_from_first THEN reserve_second ELSE reserve_first
    IN  binary_search_loop(0, 0, swap_balance, swap_balance, swap_balance, swap_balance, other_balance,
                           reserve_in, reserve_out, fee_num, fee_denom, fee_mode)

\* binary_search_pre_swap
binary_search_pre_swap(balance_first, balance_second, reserve_first, reserve_second, fee_num, fee_denom, fee_mode, swap_from_first) ==
    LET swap_balance == IF swap_from_first THEN balance_first ELSE balance_second
        other_balance == IF swap_from_first THEN balance_second ELSE balance_first
        reserve_in == IF swap_from_first THEN reserve_first ELSE reserve_second
        reserve_out == IF swap_from_first THEN reserve_second ELSE reserve_first
    IN  binary_search_loop(0, 0, swap_balance, 0, swap_balance, swap_balance, other_balance,
                           reserve_in, reserve_out, fee_num, fee_denom, fee_mode)

\* compute_optimal_pre_swap with the direction flag of the other token.
compute_optimal_pre_swap_other_flag(balance_first, balance_second, reserve_first, reserve_second, fee_num, fee_denom, fee_mode) ==
    IF balance_first = 0 \/ balance_second = 0 \/ reserve_first = 0 \/ reserve_second = 0
    THEN <<TRUE, 0>>
    ELSE
    LET product_first == balance_first * reserve_second
        product_second == balance_second * reserve_first
    IN  IF product_first > product_second THEN
            <<FALSE, binary_search_pre_swap(balance_first, balance_second, reserve_first,
                                            reserve_second, fee_num, fee_denom, fee_mode, TRUE)>>
        ELSE IF product_second > product_first THEN
            <<TRUE, binary_search_pre_swap(balance_first, balance_second, reserve_first,
                                           reserve_second, fee_num, fee_denom, fee_mode, FALSE)>>
        ELSE <<TRUE, 0>>

\* compute_optimal_pre_swap without the early return for a held amount of zero.
compute_optimal_pre_swap_zero_held(balance_first, balance_second, reserve_first, reserve_second, fee_num, fee_denom, fee_mode) ==
    IF reserve_first = 0 \/ reserve_second = 0
    THEN <<TRUE, 0>>
    ELSE
    LET product_first == balance_first * reserve_second
        product_second == balance_second * reserve_first
    IN  IF product_first > product_second THEN
            <<TRUE, binary_search_pre_swap(balance_first, balance_second, reserve_first,
                                           reserve_second, fee_num, fee_denom, fee_mode, TRUE)>>
        ELSE IF product_second > product_first THEN
            <<FALSE, binary_search_pre_swap(balance_first, balance_second, reserve_first,
                                            reserve_second, fee_num, fee_denom, fee_mode, FALSE)>>
        ELSE <<TRUE, 0>>

\* compute_optimal_pre_swap that searches from the first token also when the
\* two products are equal.
compute_optimal_pre_swap_always_search(balance_first, balance_second, reserve_first, reserve_second, fee_num, fee_denom, fee_mode) ==
    IF balance_first = 0 \/ balance_second = 0 \/ reserve_first = 0 \/ reserve_second = 0
    THEN <<TRUE, 0>>
    ELSE
    LET product_first == balance_first * reserve_second
        product_second == balance_second * reserve_first
    IN  IF product_first >= product_second THEN
            <<TRUE, binary_search_pre_swap(balance_first, balance_second, reserve_first,
                                           reserve_second, fee_num, fee_denom, fee_mode, TRUE)>>
        ELSE
            <<FALSE, binary_search_pre_swap(balance_first, balance_second, reserve_first,
                                            reserve_second, fee_num, fee_denom, fee_mode, FALSE)>>

\* compute_optimal_pre_swap: <<swap_from_first, swap_amount>>
compute_optimal_pre_swap(balance_first, balance_second, reserve_first, reserve_second, fee_num, fee_denom, fee_mode) ==
    IF balance_first = 0 \/ balance_second = 0 \/ reserve_first = 0 \/ reserve_second = 0
    THEN <<TRUE, 0>>
    ELSE
    LET product_first == balance_first * reserve_second
        product_second == balance_second * reserve_first
    IN  IF product_first > product_second THEN
            <<TRUE, binary_search_pre_swap(balance_first, balance_second, reserve_first,
                                           reserve_second, fee_num, fee_denom, fee_mode, TRUE)>>
        ELSE IF product_second > product_first THEN
            <<FALSE, binary_search_pre_swap(balance_first, balance_second, reserve_first,
                                            reserve_second, fee_num, fee_denom, fee_mode, FALSE)>>
        ELSE <<TRUE, 0>>

-----------------------------------------------------------------------------
(* The execution engine: aggregator.rs, utils.rs *)

\* struct Instruction before any tuple has been decoded.
NoInstruction ==
    [action |-> [tag |-> "", token |-> "", n |-> 0],
     inputs |-> [some |-> FALSE, list |-> <<>>],
     address |-> [some |-> FALSE, val |-> ""]]

\* Sum of the amounts of a list of payments <<token, amount>>.
RECURSIVE Total(_)
Total(ps) == IF ps = <<>> THEN 0 ELSE ps[1][2] + Total(Tail(ps))

\* Amount of one token in a list of payments.
RECURSIVE TotalOf(_, _)
TotalOf(ps, token) ==
    IF ps = <<>> THEN 0
    ELSE (IF ps[1][1] = token THEN ps[1][2] ELSE 0) + TotalOf(Tail(ps), token)

\* withdraw_input without the comparison of the input's asset with the asset of
\* the previous result.
withdraw_input_any_asset(v, input) ==
    IF input.mode.kind = "Fixed" THEN withdraw(v, input.token, input.mode.val)
    ELSE IF input.mode.kind = "Ppm" THEN withdraw_ppm(v, input.token, input.mode.val)
    ELSE IF input.mode.kind = "All" THEN withdraw_all(v, input.token)
    ELSE IF v.prev_result = None THEN Fail(v, "PrevAmountUnavailable")
    ELSE withdraw(v, input.token, v.prev_result[2])

\* execute_instruction, step 1, for one InputArg: the amount its mode resolves
\* to is withdrawn from the ledger.
withdraw_input(v, input) ==
    IF input.mode.kind = "Fixed" THEN withdraw(v, input.token, input.mode.val)
    ELSE IF input.mode.kind = "Ppm" THEN withdraw_ppm(v, input.token, input.mode.val)
    ELSE IF input.mode.kind = "All" THEN withdraw_all(v, input.token)
    ELSE IF v.prev_result = None THEN Fail(v, "PrevAmountUnavailable")
    ELSE IF input.token # v.prev_result[1] THEN Fail(v, "PrevAmountMismatch")
    ELSE withdraw(v, input.token, v.prev_result[2])

\* The loop over instr.inputs from input i on; acc holds the payments so far.
RECURSIVE withdraw_inputs(_, _, _, _)
withdraw_inputs(v, list, i, acc) ==
    IF i > Len(list) THEN [vault |-> v, payments |-> acc, err |-> "none"]
    ELSE
    LET r == withdraw_input(v, list[i])
    IN  IF r.err # "none" THEN [vault |-> v, payments |-> acc, err |-> r.err]
        ELSE IF ~(r.ret > 0) THEN [vault |-> v, payments |-> acc, err |-> "ZeroInput"]
        ELSE withdraw_inputs(r.vault, list, i + 1, Append(acc, <<list[i].token, r.ret>>))

\* execute_instruction up to the dispatch: the input payments of the
\* instruction, taken out of the ledger.
execute_instruction(v, instruction) ==
    IF instruction.inputs.some THEN withdraw_inputs(v, instruction.inputs.list, 1, <<>>)
    ELSE IF v.prev_result = None THEN
        [vault |-> v, payments |-> <<>>, err |-> "PrevResultUnwrap"]
    ELSE
        LET prev == v.prev_result
            r == withdraw(v, prev[1], prev[2])
        IN  [vault |-> r.vault, payments |-> IF r.err = "none" THEN <<prev>> ELSE <<>>,
             err |-> r.err]

is_zappable_add_liquidity(action) ==
    action.tag \in {"XExchangeAddLiquidity", "OneDexAddLiquidity", "JexAddLiquidity"}

\* get_proxy_call: the venue an instruction is sent to.  Fixed venues and
\* storage lookups give a venue; every other action needs instr.address.
get_proxy_call(instruction, ps) ==
    IF Len(ps) = 0 THEN Panic("IndexOutOfRange")
    ELSE IF instruction.action.tag \in
            {"XExchangeSwap", "OneDexSwap", "OneDexAddLiquidity", "OneDexRemoveLiquidity",
             "Wrapping", "UnWrapping", "XoxnoLiquidStaking", "LXoxnoLiquidStaking",
             "HatomLiquidStaking", "HatomRedeem", "HatomSupply"}
    THEN Val(instruction.action.tag)
    ELSE IF instruction.action.tag = "XExchangeAddLiquidity"
    THEN (IF Len(ps) < 2 THEN Panic("IndexOutOfRange") ELSE Val(instruction.action.tag))
    ELSE IF instruction.address.some THEN Val(instruction.address.val)
    ELSE Panic("AddressUnwrap")

\* dispatch_to_proxy: what the venue call is paid.  Wrapping and
\* HatomLiquidStaking pay `.egld(payments.get(0).amount)`: the amount of the
\* first payment, in the native coin; every other action pays `payments`.
proxy_payment(action, ps) ==
    IF action.tag \in {"Wrapping", "HatomLiquidStaking"}
    THEN << <<EGLD_000000_TOKEN_IDENTIFIER, ps[1][2]>> >>
    ELSE ps

\* Result handling that deposits every back-transfer and never records a
\* previous result.
RECURSIVE deposit_results_no_prev(_, _, _)
deposit_results_no_prev(v, result, i) ==
    IF i > Len(result) THEN v
    ELSE deposit_results_no_prev(deposit(v, result[i][1], result[i][2]), result, i + 1)

\* Result handling that records every back-transfer as the previous result,
\* whatever their number.
RECURSIVE deposit_results_always_prev(_, _, _)
deposit_results_always_prev(v, result, i) ==
    IF i > Len(result) THEN v
    ELSE deposit_results_always_prev(
             deposit(set_prev_result(v, result[i][1], result[i][2]),
                     result[i][1], result[i][2]),
             result, i + 1)

\* dispatch_to_proxy, result handling: every back-transfer is deposited, and a
\* single back-transfer becomes the previous result.
RECURSIVE deposit_results(_, _, _)
deposit_results(v, result, i) ==
    IF i > Len(result) THEN v
    ELSE LET funds == result[i]
             v1 == IF Len(result) = 1 THEN set_prev_result(v, funds[1], funds[2]) ELSE v
         IN  deposit_results(deposit(v1, funds[1], funds[2]), result, i + 1)

\* MapMapper::insert on the keys of a map, which are kept in insertion order: a
\* new key goes to the end, a key the map has stays where it is.
KeysInsert(keys, k) ==
    IF \E i \in 1..Len(keys) : keys[i] = k THEN keys ELSE Append(keys, k)

\* accumulate_admin_fee on the admin_fees map of the storage.
accumulate_admin_fee(st, token, amount) ==
    LET current == IF MapContains(st.admin_fees, token) THEN st.admin_fees[token] ELSE 0
    IN  [st EXCEPT !.admin_fees = MapPut(st.admin_fees, token, current + amount),
                   !.admin_fees_keys = KeysInsert(st.admin_fees_keys, token)]

\* accumulate_referrer_fee on the referrer_balances(id) map of the storage.
accumulate_referrer_fee(st, id, token, amount) ==
    LET balances == IF MapContains(st.referrer_balances, id)
                    THEN st.referrer_balances[id] ELSE <<>>
        current == IF MapContains(balances, token) THEN balances[token] ELSE 0
        keys == IF MapContains(st.referrer_balances_keys, id)
                THEN st.referrer_balances_keys[id] ELSE <<>>
    IN  [st EXCEPT !.referrer_balances =
                       MapPut(st.referrer_balances, id, MapPut(balances, token, current + amount)),
                   !.referrer_balances_keys =
                       MapPut(st.referrer_balances_keys, id, KeysInsert(keys, token))]

\* Step 7 done as the result handling of a direct dispatch does it: every
\* back-transfer goes to the ledger.
deposit_lp_results_to_ledger(v, st, result, token_out, i) ==
    [vault |-> deposit_results_no_prev(v, result, i), storage |-> st]

\* pre_balance_and_add_liquidity, step 7: a back-transfer in token_out goes to
\* the ledger, any other one to the admin fee pool.
RECURSIVE deposit_lp_results(_, _, _, _, _)
deposit_lp_results(v, st, result, token_out, i) ==
    IF i > Len(result) THEN [vault |-> v, storage |-> st]
    ELSE LET payment == result[i]
         IN  IF payment[1] = token_out
             THEN deposit_lp_results(deposit(v, payment[1], payment[2]), st, result,
                                     token_out, i + 1)
             ELSE deposit_lp_results(v, accumulate_admin_fee(st, payment[1], payment[2]),
                                     result, token_out, i + 1)

\* The return of the ledger as aggregator.rs does it: every payment is sent to
\* the caller, none is swept.
return_vault_to_caller_all(output_payments, st, token_out, i) ==
    [sent |-> output_payments, swept |-> <<>>, storage |-> st]

\* return_vault_to_caller of utils.rs, from payment i of the ledger's payments
\* on: a payment in token_out is sent to the caller, any other one is added to
\* the admin fee pool of its token.
RECURSIVE return_vault_to_caller(_, _, _, _)
return_vault_to_caller(output_payments, st, token_out, i) ==
    IF i > Len(output_payments) THEN [sent |-> <<>>, swept |-> <<>>, storage |-> st]
    ELSE LET payment == output_payments[i]
         IN  IF payment[1] = token_out
             THEN LET rest == return_vault_to_caller(output_payments, st, token_out, i + 1)
                  IN  [rest EXCEPT !.sent = <<payment>> \o rest.sent]
             ELSE LET rest == return_vault_to_caller(
                                  output_payments,
                                  accumulate_admin_fee(st, payment[1], payment[2]),
                                  token_out, i + 1)
                  IN  [rest EXCEPT !.swept = <<payment>> \o rest.swept]

\* apply_fees taking only the referral fee out of the ledger, while both pools
\* are credited.
apply_fees_single_withdrawal(v, st, token_out, referral_id) ==
    LET output_balance == balance_of(v, token_out)
    IN  IF output_balance.err # "none"
        THEN [vault |-> v, storage |-> st, err |-> output_balance.err, fee |-> 0]
        ELSE IF /\ referral_id > 0
                /\ MapContains(st.referral_config, referral_id)
                /\ st.referral_config[referral_id].active
                /\ st.referral_config[referral_id].fee > 0
        THEN
            LET referral_fee ==
                    (output_balance.ret * st.referral_config[referral_id].fee) \div TOTAL_FEE
                w == withdraw(v, token_out, referral_fee)
            IN  IF w.err # "none"
                THEN [vault |-> v, storage |-> st, err |-> w.err, fee |-> 0]
                ELSE [vault |-> w.vault,
                      storage |-> accumulate_admin_fee(
                                      accumulate_referrer_fee(st, referral_id, token_out,
                                                              referral_fee),
                                      token_out, referral_fee),
                      err |-> "none", fee |-> referral_fee]
        ELSE [vault |-> v, storage |-> st, err |-> "none", fee |-> 0]

\* apply_fees that takes the referral fee of a record whether it is active
\* or not.
apply_fees_ignoring_active(v, st, token_out, referral_id) ==
    LET output_balance == balance_of(v, token_out)
    IN  IF output_balance.err # "none"
        THEN [vault |-> v, storage |-> st, err |-> output_balance.err, fee |-> 0]
        ELSE IF /\ referral_id > 0
                /\ MapContains(st.referral_config, referral_id)
                /\ st.referral_config[referral_id].fee > 0
        THEN
            LET referral_fee ==
                    (output_balance.ret * st.referral_config[referral_id].fee) \div TOTAL_FEE
                admin_fee == referral_fee
                total == referral_fee + admin_fee
                w == withdraw(v, token_out, total)
            IN  IF w.err # "none"
                THEN [vault |-> v, storage |-> st, err |-> w.err, fee |-> 0]
                ELSE [vault |-> w.vault,
                      storage |-> accumulate_admin_fee(
                                      accumulate_referrer_fee(st, referral_id, token_out,
                                                              referral_fee),
                                      token_out, admin_fee),
                      err |-> "none", fee |-> total]
        ELSE IF st.static_fee > 0 THEN
            LET fee == (output_balance.ret * st.static_fee) \div TOTAL_FEE
                w == withdraw(v, token_out, fee)
            IN  IF w.err # "none"
                THEN [vault |-> v, storage |-> st, err |-> w.err, fee |-> 0]
                ELSE [vault |-> w.vault, storage |-> accumulate_admin_fee(st, token_out, fee),
                      err |-> "none", fee |-> fee]
        ELSE [vault |-> v, storage |-> st, err |-> "none", fee |-> 0]

\* apply_fees: the referral fee with its matching admin fee, or else the static
\* fee, is taken from the output token's balance.
apply_fees(v, st, token_out, referral_id) ==
    LET output_balance == balance_of(v, token_out)
    IN  IF output_balance.err # "none"
        THEN [vault |-> v, storage |-> st, err |-> output_balance.err, fee |-> 0]
        ELSE IF /\ referral_id > 0
                /\ MapContains(st.referral_config, referral_id)
                /\ st.referral_config[referral_id].active
                /\ st.referral_config[referral_id].fee > 0
        THEN
            LET referral_fee ==
                    (output_balance.ret * st.referral_config[referral_id].fee) \div TOTAL_FEE
                admin_fee == referral_fee
                total == referral_fee + admin_fee
                w == withdraw(v, token_out, total)
            IN  IF w.err # "none"
                THEN [vault |-> v, storage |-> st, err |-> w.err, fee |-> 0]
                ELSE [vault |-> w.vault,
                      storage |-> accumulate_admin_fee(
                                      accumulate_referrer_fee(st, referral_id, token_out,
                                                              referral_fee),
                                      token_out, admin_fee),
                      err |-> "none", fee |-> total]
        ELSE IF st.static_fee > 0 THEN
            LET fee == (output_balance.ret * st.static_fee) \div TOTAL_FEE
                w == withdraw(v, token_out, fee)
            IN  IF w.err # "none"
                THEN [vault |-> v, storage |-> st, err |-> w.err, fee |-> 0]
                ELSE [vault |-> w.vault, storage |-> accumulate_admin_fee(st, token_out, fee),
                      err |-> "none", fee |-> fee]
        ELSE [vault |-> v, storage |-> st, err |-> "none", fee |-> 0]

\* aggregate with the fees taken before the minimum is verified.
aggregate_next_step_fees_first(step) ==
    IF step = "loop" THEN "fees"
    ELSE IF step = "fees" THEN "check"
    ELSE IF step = "check" THEN "return"
    ELSE "done"

\* aggregate with the ledger returned to the caller before the minimum is
\* verified.
aggregate_next_step_return_first(step) ==
    IF step = "loop" THEN "return"
    ELSE IF step = "return" THEN "check"
    ELSE IF step = "check" THEN "fees"
    ELSE "done"

\* aggregate, steps 4 to 6: after the instruction loop the minimum is verified,
\* then the fees are applied, then the ledger is returned to the caller.
aggregate_next_step(step) ==
    IF step = "loop" THEN "check"
    ELSE IF step = "check" THEN "fees"
    ELSE IF step = "fees" THEN "return"
    ELSE "done"

\* The arguments of a call that has not been made.
NoBatch ==
    [payment |-> <<"", 0, 0>>, min_amount_out |-> 0, token_out |-> 0, token_out_id |-> "",
     referral_id |-> 0, instructions |-> <<>>]

\* Storage of a freshly deployed contract.
NoStorage ==
    [static_fee |-> 0, referral_id_counter |-> 0, referral_config |-> <<>>,
     admin_fees |-> <<>>, admin_fees_keys |-> <<>>,
     referrer_balances |-> <<>>, referrer_balances_keys |-> <<>>]

-----------------------------------------------------------------------------
(* Referral and fee administration: config.rs, aggregator.rs *)

\* The result of an endpoint on the storage: the storage afterwards, the value
\* returned and the error signalled; a failed require! leaves the storage as
\* it was.
Done(st, value) == [storage |-> st, ret |-> value, err |-> "none"]
Rejected(st, reason) == [storage |-> st, ret |-> 0, err |-> reason]

\* add_referral of aggregator.rs: the fee may be anything up to 100%.
aggregator_add_referral(st, owner, fee) ==
    IF fee > TOTAL_FEE THEN Rejected(st, "FeeExceeds100")
    ELSE LET id == st.referral_id_counter + 1
         IN  Done([st EXCEPT !.referral_id_counter = id,
                             !.referral_config =
                                 MapPut(st.referral_config, id,
                                        [owner |-> owner, fee |-> fee, active |-> TRUE])],
                  id)

\* add_referral of config.rs: the new referral gets the next id and is active.
add_referral(st, owner, fee) ==
    IF fee > TOTAL_FEE \div 2 THEN Rejected(st, "ReferralFeeExceeds50")
    ELSE LET id == st.referral_id_counter + 1
         IN  Done([st EXCEPT !.referral_id_counter = id,
                             !.referral_config =
                                 MapPut(st.referral_config, id,
                                        [owner |-> owner, fee |-> fee, active |-> TRUE])],
                  id)

\* set_referral_fee of aggregator.rs.
aggregator_set_referral_fee(st, id, fee) ==
    IF ~MapContains(st.referral_config, id) THEN Rejected(st, "ReferralNotFound")
    ELSE IF fee > TOTAL_FEE THEN Rejected(st, "FeeExceeds100")
    ELSE Done([st EXCEPT !.referral_config[id].fee = fee], 0)

\* set_referral_fee of config.rs.
set_referral_fee(st, id, fee) ==
    IF ~MapContains(st.referral_config, id) THEN Rejected(st, "ReferralNotFound")
    ELSE IF fee > TOTAL_FEE \div 2 THEN Rejected(st, "ReferralFeeExceeds50")
    ELSE Done([st EXCEPT !.referral_config[id].fee = fee], 0)

\* set_referral_active
set_referral_active(st, id, active) ==
    IF ~MapContains(st.referral_config, id) THEN Rejected(st, "ReferralNotFound")
    ELSE Done([st EXCEPT !.referral_config[id].active = active], 0)

\* set_referral_owner
set_referral_owner(st, id, new_owner) ==
    IF ~MapContains(st.referral_config, id) THEN Rejected(st, "ReferralNotFound")
    ELSE Done([st EXCEPT !.referral_config[id].owner = new_owner], 0)

\* set_static_fee
set_static_fee(st, fee) ==
    IF fee > TOTAL_FEE THEN Rejected(st, "FeeExceeds100")
    ELSE Done([st EXCEPT !.static_fee = fee], 0)

\* The number of payments one claim makes at most.
MAX_CLAIM_PAYMENTS == 90

\* The loop of a claim over a fee map, from key i on: the entries with an
\* amount above zero become payments, in the map's order, until there are
\* MAX_CLAIM_PAYMENTS of them.
RECURSIVE claim_payments(_, _, _, _)
claim_payments(keys, balances, i, claimed) ==
    IF i > Len(keys) \/ Len(claimed) >= MAX_CLAIM_PAYMENTS THEN claimed
    ELSE claim_payments(keys, balances, i + 1,
                        IF balances[keys[i]] > 0
                        THEN Append(claimed, <<keys[i], balances[keys[i]]>>)
                        ELSE claimed)

\* MapMapper::remove of every claimed token: the other keys keep their order.
RemoveClaimed(keys, claimed) ==
    SelectSeq(keys, LAMBDA k : \A j \in 1..Len(claimed) : claimed[j][1] # k)

\* The map without the claimed tokens.
WithoutClaimed(balances, claimed) ==
    [t \in (DOMAIN balances) \ {claimed[j][1] : j \in 1..Len(claimed)} |-> balances[t]]

\* claim_referral_fees as aggregator.rs ends it: the whole pool is cleared,
\* whatever was paid out.
claim_referral_fees_clear_all(st, referral_id) ==
    IF ~MapContains(st.referral_config, referral_id)
    THEN [storage |-> st, payments |-> <<>>, to |-> "", err |-> "ReferralNotFound"]
    ELSE LET config == st.referral_config[referral_id]
             has == MapContains(st.referrer_balances, referral_id)
             balances == IF has THEN st.referrer_balances[referral_id] ELSE <<>>
             keys == IF has THEN st.referrer_balances_keys[referral_id] ELSE <<>>
             claimed == claim_payments(keys, balances, 1, <<>>)
         IN  [storage |->
                  IF ~has THEN st
                  ELSE [st EXCEPT !.referrer_balances[referral_id] = <<>>,
                                  !.referrer_balances_keys[referral_id] = <<>>],
              payments |-> claimed, to |-> config.owner, err |-> "none"]

\* claim_referral_fees: the payments go to the owner in the referral's record.
claim_referral_fees(st, referral_id) ==
    IF ~MapContains(st.referral_config, referral_id)
    THEN [storage |-> st, payments |-> <<>>, to |-> "", err |-> "ReferralNotFound"]
    ELSE LET config == st.referral_config[referral_id]
             has == MapContains(st.referrer_balances, referral_id)
             balances == IF has THEN st.referrer_balances[referral_id] ELSE <<>>
             keys == IF has THEN st.referrer_balances_keys[referral_id] ELSE <<>>
             claimed == claim_payments(keys, balances, 1, <<>>)
         IN  [storage |->
                  IF ~has THEN st
                  ELSE [st EXCEPT !.referrer_balances[referral_id] =
                                      WithoutClaimed(balances, claimed),
                                  !.referrer_balances_keys[referral_id] =
                                      RemoveClaimed(keys, claimed)],
              payments |-> claimed, to |-> config.owner, err |-> "none"]

\* claim_admin_fees: the payments go to the recipient the owner names.
claim_admin_fees(st, recipient) ==
    LET claimed == claim_payments(st.admin_fees_keys, st.admin_fees, 1, <<>>)
    IN  [storage |-> [st EXCEPT !.admin_fees = WithoutClaimed(st.admin_fees, claimed),
                                !.admin_fees_keys = RemoveClaimed(st.admin_fees_keys, claimed)],
         payments |-> claimed, to |-> recipient, err |-> "none"]

-----------------------------------------------------------------------------
(* SpecVault: arbitrary sequences of ledger operations *)

\* What a payment may carry as its token identifier, nonce and amount.
PaymentIds == Tokens \cup {"", EGLD_TOKEN_IDENTIFIER}
Nonces == {0, 1}
\* Parts-per-million arguments tried (ppm is a u32, so values above the scale exist).
PpmValues == {0, 1, 250000, 500000, 999999, PPM_SCALE, PPM_SCALE + 1}

InitVault ==
    /\ vault = new
    /\ err = "none"
    /\ op = [name |-> "new", token |-> "", arg |-> 0]
    /\ ret = 0
    /\ pre = new
    /\ pc = "idle"
    /\ batch = NoBatch
    /\ ip = 0
    /\ instr = NoInstruction
    /\ payments = <<>>
    /\ back = <<>>
    /\ storage = NoStorage
    /\ storage_pre = NoStorage
    /\ transfers = <<>>
    /\ log = <<>>

\* Record the outcome r of operation `name` applied to the current ledger.
Apply(name, token, arg, r) ==
    /\ pre' = vault
    /\ op' = [name |-> name, token |-> token, arg |-> arg]
    /\ vault' = r.vault
    /\ ret' = r.ret
    /\ err' = r.err
    /\ UNCHANGED engine_vars

\* A new call: Vault::from_payment builds a fresh ledger from the payment.  A
\* ledger lives for one call, so a new one is built at the start and after a
\* call has ended in an error.
FromPayment ==
    /\ op.name = "new" \/ err # "none"
    /\ \E id \in PaymentIds, nonce \in Nonces, amount \in 0..MaxBalance :
        LET r == from_payment(id, nonce, amount)
            tok == IF Len(r.vault.tokens) = 0 THEN id ELSE r.vault.tokens[1]
        IN  /\ pre' = new
            /\ op' = [name |-> "from_payment", token |-> tok, arg |-> amount]
            /\ vault' = r.vault
            /\ ret' = r.ret
            /\ err' = r.err
            /\ UNCHANGED engine_vars

Deposit ==
    /\ err = "none"
    /\ \E token \in Tokens, amount \in 1..MaxBalance :
        /\ (IF MapContains(vault.balances, token) THEN vault.balances[token] ELSE 0)
              + amount <= MaxBalance
        /\ Apply("deposit", token, amount, Ok(deposit(vault, token, amount), 0))

Withdraw ==
    /\ err = "none"
    /\ \E token \in Tokens, amount \in 0..(MaxBalance + 1) :
        Apply("withdraw", token, amount, withdraw(vault, token, amount))

WithdrawAll ==
    /\ err = "none"
    /\ \E token \in Tokens :
        Apply("withdraw_all", token, 0, withdraw_all(vault, token))

WithdrawPpm ==
    /\ err = "none"
    /\ \E token \in Tokens, ppm \in PpmValues :
        Apply("withdraw_ppm", token, ppm, withdraw_ppm(vault, token, ppm))

NextVault == FromPayment \/ Deposit \/ Withdraw \/ WithdrawAll \/ WithdrawPpm

SpecVault == InitVault /\ [][NextVault]_vars

-----------------------------------------------------------------------------
(* Spec: one `xo` call (aggregate) from its arguments to its end *)

\* Largest number of compact instructions in a batch.
MaxInstrs == 2

\* The three registries passed with every batch of the model.
TokenRegistry == <<"TKB-222222", "LPT-333333">>
AddressRegistry == <<"erd1pool">>
\* The amounts, as limbs: 500,000; 150; 1,000,001; 2^32 + 500,000;
\* 2^64 + 2,000,000.
AmountRegistry ==
    << <<41248, 7>>, <<150>>, <<16961, 15>>, <<41248, 7, 1>>, <<33920, 30, 0, 0, 1>> >>

\* Compact tuples <<action, byte1, byte2, byte3, byte4, pair_id_or_addr>>.
\* XExchangeSwap to TKB of half of the native coin held (Ppm, amounts[0]).
SwapHalf == <<0, 0, IDX_EGLD, MODE_PPM_THRESHOLD, 0, IDX_AUTO>>
\* XExchangeSwap to TKB of all of the native coin held.
SwapAll == <<0, 0, IDX_EGLD, 0, 0, IDX_AUTO>>
\* XExchangeSwap to TKB of a fixed 150 (amounts[1]) of the native coin.
SwapFixed == <<0, 0, IDX_EGLD, 3, 0, IDX_AUTO>>
\* AshSwapPoolSwap to LPT of the previous result, which has to be in TKB.
SwapPrev == <<3, 1, 0, 1, 0, 0>>
\* JexSwap without inputs: chained on the previous result.
SwapChained == <<12, IDX_NONE, 1, IDX_NONE, 0, 0>>
\* XExchangeAddLiquidity with all of the native coin and all of TKB.
AddLiquidity == <<1, IDX_EGLD, 0, 0, 0, IDX_AUTO>>
\* Wrapping with all of the native coin and all of TKB as inputs.
WrapTwo == <<18, IDX_EGLD, 0, 0, 0, IDX_AUTO>>
\* Wrapping without inputs: chained on the previous result.
WrapChained == <<18, IDX_NONE, 1, IDX_NONE, 0, IDX_AUTO>>
\* A tuple whose action byte is no action.
BadAction == <<25, 0, 0, 0, 0, 0>>
\* XExchangeSwap to TKB of a Ppm share of the native coin, the share being
\* amounts[2], amounts[3] or amounts[4]: all above 1,000,000.
SwapPpmOver == <<0, 0, IDX_EGLD, MODE_PPM_THRESHOLD + 2, 0, IDX_AUTO>>
SwapPpmOver32 == <<0, 0, IDX_EGLD, MODE_PPM_THRESHOLD + 3, 0, IDX_AUTO>>
SwapPpmOver64 == <<0, 0, IDX_EGLD, MODE_PPM_THRESHOLD + 4, 0, IDX_AUTO>>

CompactTuples ==
    {SwapHalf, SwapAll, SwapFixed, SwapPrev, SwapChained, AddLiquidity, WrapTwo, BadAction}

\* The tuples of SpecPpm: swaps of a Ppm share, within and above 1,000,000.
PpmTuples == {SwapHalf, SwapPpmOver, SwapPpmOver32, SwapPpmOver64}

RECURSIVE SeqsUpTo(_, _)
SeqsUpTo(S, n) ==
    IF n = 0 THEN {<<>>}
    ELSE LET shorter == SeqsUpTo(S, n - 1)
         IN  shorter \cup {Append(q, x) : q \in {r \in shorter : Len(r) = n - 1}, x \in S}

InstructionLists == SeqsUpTo(CompactTuples, MaxInstrs)
PpmInstructionLists == SeqsUpTo(PpmTuples, MaxInstrs)

\* The tuples of SpecChain: a swap with one or more outputs, and the ways of
\* chaining on a previous result.  A chain may be one instruction longer.
ChainTuples == {SwapHalf, SwapChained, SwapPrev, WrapChained}
ChainInstructionLists == SeqsUpTo(ChainTuples, MaxInstrs + 1)

\* The tuples of SpecSweep: swaps that leave or do not leave a rest of the
\* input in the ledger, a chained swap, and a pre-balanced add-liquidity.
SweepTuples == {SwapHalf, SwapAll, SwapChained, AddLiquidity}
SweepInstructionLists == SeqsUpTo(SweepTuples, MaxInstrs)

\* The single payment of the call: <<token identifier, nonce, amount>>.
CallPayments ==
    {<<EGLD_TOKEN_IDENTIFIER, 0, 100>>, <<EGLD_TOKEN_IDENTIFIER, 0, 1>>, <<"TKB-222222", 1, 100>>}
MinAmounts == {0, 100}
TokenOutIndexes == {0, 1}
ReferralIds == {0, 1}

\* Contract storage before the call: what the admin endpoints and earlier calls
\* can have left.
StaticFees == {0, 100}
ReferralConfigs == {<<>>, (1 :> [owner |-> "erd1ref", fee |-> 100, active |-> TRUE])}
InitialStorages ==
    {[static_fee |-> f, referral_id_counter |-> Cardinality(DOMAIN c), referral_config |-> c,
      admin_fees |-> ("TKB-222222" :> 7), admin_fees_keys |-> <<"TKB-222222">>,
      referrer_balances |-> <<>>, referrer_balances_keys |-> <<>>] :
        f \in StaticFees, c \in ReferralConfigs}

\* What a venue can send back for a call paid `paid` units in total: nothing,
\* one payment worth what it was paid or worth one unit, or two payments.
VenueReturns(paid) ==
    { <<>>,
      << <<"TKB-222222", paid>> >>,
      << <<"LPT-333333", paid>> >>,
      << <<"TKB-222222", 1>> >> }
    \cup (IF paid >= 2 THEN { << <<"LPT-333333", paid - 1>>, <<"TKB-222222", 1>> >> } ELSE {})

\* State of a pair as read from the venue's storage: reserves and the fee
\* <<total_fee, special_fee, lp_fee, fee_denom>> of get_fee.
Pools ==
    { [reserve_first |-> 100, reserve_second |-> 100, fee |-> <<300, 50, 0, 100000>>],
      [reserve_first |-> 100, reserve_second |-> 200, fee |-> <<300, 50, 0, 100000>>] }

Init ==
    /\ vault = new
    /\ err = "none"
    /\ op = [name |-> "new", token |-> "", arg |-> 0]
    /\ ret = 0
    /\ pre = new
    /\ pc = "idle"
    /\ batch = NoBatch
    /\ ip = 0
    /\ instr = NoInstruction
    /\ payments = <<>>
    /\ back = <<>>
    /\ storage \in InitialStorages
    /\ storage_pre = storage
    /\ transfers = <<>>
    /\ log = <<>>

\* The engine's state as one record, and the step that moves to such a record.
Now ==
    [pc |-> pc, vault |-> vault, err |-> err, batch |-> batch, ip |-> ip, instr |-> instr,
     payments |-> payments, back |-> back, storage |-> storage, transfers |-> transfers,
     log |-> log]

Move(s) ==
    /\ pc' = s.pc
    /\ vault' = s.vault
    /\ err' = s.err
    /\ batch' = s.batch
    /\ ip' = s.ip
    /\ instr' = s.instr
    /\ payments' = s.payments
    /\ back' = s.back
    /\ storage' = s.storage
    /\ transfers' = s.transfers
    /\ log' = s.log
    /\ UNCHANGED <<op, ret, pre, storage_pre>>

\* One more step in the log: its kind, its instruction, what went out of and
\* what came into the contract's hands.
Logged(s, kind, i, a, b) ==
    [s EXCEPT !.log = Append(s.log, [kind |-> kind, i |-> i, a |-> a, b |-> b])]

\* signal_error / require! / sc_panic! / a failed unwrap / a failed sync call:
\* the call ends, its memory is gone and the host discards its storage writes.
Aborted(s, reason) ==
    [s EXCEPT !.pc = "aborted", !.err = reason, !.storage = storage_pre, !.vault = new,
              !.payments = <<>>, !.back = <<>>]

\* Where the call goes after instruction s.ip has been handled.
AfterInstruction(s) ==
    IF s.ip < Len(s.batch.instructions)
    THEN [s EXCEPT !.ip = s.ip + 1, !.pc = "decode", !.payments = <<>>, !.back = <<>>]
    ELSE [s EXCEPT !.pc = aggregate_next_step("loop"), !.payments = <<>>, !.back = <<>>]

\* aggregate, steps 1 and 2: the ledger is built from the call's payment, the
\* registries are read and token_out is resolved.
aggregate(instructions) ==
    \E payment \in CallPayments, min_amount_out \in MinAmounts,
       token_out \in TokenOutIndexes, referral_id \in ReferralIds :
        LET v == from_payment(payment[1], payment[2], payment[3])
            token_out_id == resolve_token(token_out, TokenRegistry)
            s == [Now EXCEPT !.batch =
                    [payment |-> payment, min_amount_out |-> min_amount_out,
                     token_out |-> token_out,
                     token_out_id |-> IF token_out_id.err = "none" THEN token_out_id.val ELSE "",
                     referral_id |-> referral_id, instructions |-> instructions]]
        IN  Move(IF v.err # "none" THEN Aborted(s, v.err)
                 ELSE IF token_out_id.err # "none" THEN Aborted(s, token_out_id.err)
                 ELSE IF instructions = <<>>
                 THEN [s EXCEPT !.vault = v.vault, !.pc = aggregate_next_step("loop")]
                 ELSE [s EXCEPT !.vault = v.vault, !.pc = "decode", !.ip = 1])

\* A call with any batch of Spec's instruction lists.
StartBatch ==
    /\ pc = "idle"
    /\ \E instructions \in InstructionLists : aggregate(instructions)

\* A call with any batch of SpecPpm's instruction lists.
StartPpmBatch ==
    /\ pc = "idle"
    /\ \E instructions \in PpmInstructionLists : aggregate(instructions)

\* A call with any batch of SpecChain's instruction lists.
StartChainBatch ==
    /\ pc = "idle"
    /\ \E instructions \in ChainInstructionLists : aggregate(instructions)

\* A call with any batch of SpecSweep's instruction lists.
StartSweepBatch ==
    /\ pc = "idle"
    /\ \E instructions \in SweepInstructionLists : aggregate(instructions)

\* aggregate, step 3, first half of one iteration: decode_compact_instruction
\* on the tuple at position ip.
Decode ==
    /\ pc = "decode"
    /\ LET d == decode_compact_instruction(batch.instructions[ip], TokenRegistry,
                                           AddressRegistry, AmountRegistry)
           s == Logged(Now, "decode", ip, <<>>, <<>>)
       IN  Move(IF d.err # "none" THEN Aborted(s, d.err)
                ELSE [s EXCEPT !.instr = d.val, !.pc = "withdraw"])

\* execute_instruction, step 1: the inputs are withdrawn from the ledger.
WithdrawInputs ==
    /\ pc = "withdraw"
    /\ LET r == execute_instruction(vault, instr)
           s == Logged(Now, "withdraw", ip, r.payments, <<>>)
       IN  Move(IF r.err # "none" THEN Aborted(Now, r.err)
                ELSE [s EXCEPT !.vault = r.vault, !.payments = r.payments,
                               !.pc = IF is_zappable_add_liquidity(instr.action)
                                      THEN "pre_balance" ELSE "dispatch"])

\* dispatch_to_proxy: the synchronous venue call.  The venue rejects the call,
\* or sends back-transfers.
Dispatch ==
    /\ pc = "dispatch"
    /\ LET call == get_proxy_call(instr, payments)
           paid == proxy_payment(instr.action, payments)
       IN  IF call.err # "none" THEN Move(Aborted(Now, call.err))
           ELSE \/ Move(Aborted(Logged(Now, "call", ip, paid, <<>>), "VenueRejected"))
                \/ \E result \in VenueReturns(Total(paid)) :
                      Move([Logged(Now, "call", ip, paid, result)
                                EXCEPT !.back = result, !.pc = "deposit"])

\* dispatch_to_proxy, result handling.
DepositResults ==
    /\ pc = "deposit"
    /\ Move(AfterInstruction(
            [Logged(Now, "deposit", ip, back, <<>>)
                EXCEPT !.vault = deposit_results(vault, back, 1)]))

\* pre_balance_and_add_liquidity, steps 1 to 5: the pair is read, the optimal
\* pre-swap is computed and, when it is not zero, made; the balanced payments
\* replace the input payments.
PreBalance ==
    /\ pc = "pre_balance"
    /\ IF Len(payments) < 2 THEN Move(Aborted(Now, "IndexOutOfRange"))
       ELSE \E pool \in Pools :
        LET balance_first == payments[1][2]
            balance_second == payments[2][2]
            fee_mode == IF instr.action.tag = "JexAddLiquidity"
                        THEN OnOutput(pool.fee[3]) ELSE OnInput(pool.fee[2])
            pre_swap == compute_optimal_pre_swap(balance_first, balance_second,
                                                 pool.reserve_first, pool.reserve_second,
                                                 pool.fee[1], pool.fee[4], fee_mode)
            swap_from_first == pre_swap[1]
            swap_amount == pre_swap[2]
            swap_token == IF swap_from_first THEN payments[1][1] ELSE payments[2][1]
            swap_payment == << <<swap_token, swap_amount>> >>
            Balanced(final_first, final_second) ==
                << <<payments[1][1], final_first>>, <<payments[2][1], final_second>> >>
        IN  IF swap_amount > 0 THEN
                \/ Move(Aborted(Logged(Now, "call", ip, swap_payment, <<>>), "VenueRejected"))
                \/ \E result \in VenueReturns(swap_amount) :
                    LET s == Logged(Now, "call", ip, swap_payment, result)
                        received == result[1][2]
                        final_first == IF swap_from_first THEN balance_first - swap_amount
                                       ELSE balance_first + received
                        final_second == IF swap_from_first THEN balance_second + received
                                        ELSE balance_second - swap_amount
                    IN  Move(IF Len(result) # 1 THEN Aborted(s, "NotSinglePayment")
                             ELSE IF final_first = 0 \/ final_second = 0
                             THEN Aborted(s, "ZeroAmountUnwrap")
                             ELSE [s EXCEPT !.payments = Balanced(final_first, final_second),
                                            !.pc = "add_liquidity"])
            ELSE Move([Now EXCEPT !.pc = "add_liquidity"])

\* pre_balance_and_add_liquidity, step 6: the single add-liquidity call.
AddLiquidityCall ==
    /\ pc = "add_liquidity"
    /\ \/ Move(Aborted(Logged(Now, "call", ip, payments, <<>>), "VenueRejected"))
       \/ \E result \in VenueReturns(Total(payments)) :
             Move([Logged(Now, "call", ip, payments, result)
                       EXCEPT !.back = result, !.pc = "deposit_lp"])

\* pre_balance_and_add_liquidity, step 7.
DepositLpResults ==
    /\ pc = "deposit_lp"
    /\ LET r == deposit_lp_results(vault, storage, back, batch.token_out_id, 1)
           kept == SelectSeq(back, LAMBDA payment : payment[1] = batch.token_out_id)
           dust == SelectSeq(back, LAMBDA payment : payment[1] # batch.token_out_id)
       IN  Move(AfterInstruction(
                [Logged(Now, "deposit", ip, kept, dust)
                    EXCEPT !.vault = r.vault, !.storage = r.storage]))

\* aggregate, step 4: the minimum output is verified.
CheckMinimum ==
    /\ pc = "check"
    /\ LET current_balance == balance_of(vault, batch.token_out_id)
           enough == has_minimum(vault, batch.token_out_id, batch.min_amount_out)
           s == Logged(Now, "check", 0,
                       << <<batch.token_out_id,
                            IF current_balance.err = "none" THEN current_balance.ret ELSE 0>> >>,
                       <<>>)
       IN  Move(IF current_balance.err # "none" THEN Aborted(s, current_balance.err)
                ELSE IF enough.ret # 1 THEN Aborted(s, "InsufficientOutput")
                ELSE [s EXCEPT !.pc = aggregate_next_step("check")])

\* aggregate, step 5: apply_fees.
ApplyFees ==
    /\ pc = "fees"
    /\ LET r == apply_fees(vault, storage, batch.token_out_id, batch.referral_id)
           s == Logged(Now, "fees", 0, << <<batch.token_out_id, r.fee>> >>, <<>>)
       IN  Move(IF r.err # "none" THEN Aborted(s, r.err)
                ELSE [s EXCEPT !.vault = r.vault, !.storage = r.storage,
                               !.pc = aggregate_next_step("fees")])

\* aggregate, step 6: return_vault_to_caller.  The transfer can fail at the
\* caller's end.
ReturnVault ==
    /\ pc = "return"
    /\ LET output_payments == get_all_payments(vault)
           s == Logged(Now, "transfer", 0, output_payments, <<>>)
       IN  IF \E i \in 1..Len(output_payments) : output_payments[i][2] = 0
           THEN Move(Aborted(s, "ZeroAmountUnwrap"))
           ELSE \/ /\ output_payments # <<>>
                   /\ Move(Aborted(s, "TransferFailed"))
                \/ Move([s EXCEPT !.transfers = s.transfers \o output_payments,
                                  !.vault = new,
                                  !.pc = aggregate_next_step("return")])

\* The last step of a call with return_vault_to_caller of utils.rs: the
\* payments in the output token are transferred to the caller, which can fail
\* at the caller's end, and the other ones are swept into the admin fees.
ReturnVaultToCaller ==
    /\ pc = "return"
    /\ LET output_payments == get_all_payments(vault)
           r == return_vault_to_caller(output_payments, storage, batch.token_out_id, 1)
           s == Logged(Now, "transfer", 0, r.sent, r.swept)
       IN  IF \E i \in 1..Len(output_payments) : output_payments[i][2] = 0
           THEN Move(Aborted(s, "ZeroAmountUnwrap"))
           ELSE \/ /\ r.sent # <<>>
                   /\ Move(Aborted(s, "TransferFailed"))
                \/ Move([s EXCEPT !.transfers = s.transfers \o r.sent,
                                  !.storage = r.storage,
                                  !.vault = new,
                                  !.pc = aggregate_next_step("return")])

Next ==
    \/ StartBatch
    \/ Decode
    \/ WithdrawInputs
    \/ Dispatch
    \/ DepositResults
    \/ PreBalance
    \/ AddLiquidityCall
    \/ DepositLpResults
    \/ CheckMinimum
    \/ ApplyFees
    \/ ReturnVault

Spec == Init /\ [][Next]_vars

\* SpecSweep: calls that end with return_vault_to_caller of utils.rs.
NextSweep ==
    \/ StartSweepBatch
    \/ Decode
    \/ WithdrawInputs
    \/ Dispatch
    \/ DepositResults
    \/ PreBalance
    \/ AddLiquidityCall
    \/ DepositLpResults
    \/ CheckMinimum
    \/ ApplyFees
    \/ ReturnVaultToCaller

SpecSweep == Init /\ [][NextSweep]_vars

\* SpecPpm: calls whose instructions are swaps of a Ppm share.
NextPpm ==
    \/ StartPpmBatch
    \/ Decode
    \/ WithdrawInputs
    \/ Dispatch
    \/ DepositResults
    \/ CheckMinimum
    \/ ApplyFees
    \/ ReturnVault

SpecPpm == Init /\ [][NextPpm]_vars

\* SpecChain: calls whose instructions chain on previous results.
NextChain ==
    \/ StartChainBatch
    \/ Decode
    \/ WithdrawInputs
    \/ Dispatch
    \/ DepositResults
    \/ CheckMinimum
    \/ ApplyFees
    \/ ReturnVault

SpecChain == Init /\ [][NextChain]_vars

-----------------------------------------------------------------------------
(* SpecConfig, SpecAdmin: transactions on the referral records and fee pools *)

\* The referral ids the model hands out at most.
MaxReferrals == 2

\* The amount of the admin fee pool above which the model runs no further
\* batch.
MaxPool == 7

\* The inputs of the endpoints.
Owners == {"erd1ref"}
RequestedFees == {100, TOTAL_FEE \div 2, TOTAL_FEE \div 2 + 1}
RequestedStaticFees == {0, 100, TOTAL_FEE + 1}
RequestedIds == 0..(MaxReferrals + 1)
OutputBalances == {1, 10000}

\* The ledger at step 5 of a batch whose output token is TKB: the output
\* balance and a rest of another asset.
LedgerWith(output_balance) ==
    deposit(deposit(new, "LPT-333333", 5), "TKB-222222", output_balance)

\* The storage before the first transaction: one referral with a pool, and
\* admin fees.
InitialConfigStorage ==
    [static_fee |-> 0, referral_id_counter |-> 1,
     referral_config |-> (1 :> [owner |-> "erd1ref", fee |-> 100, active |-> TRUE]),
     admin_fees |-> ("TKB-222222" :> 7 @@ "LPT-333333" :> 5),
     admin_fees_keys |-> <<"TKB-222222", "LPT-333333">>,
     referrer_balances |-> (1 :> ("TKB-222222" :> 7 @@ "LPT-333333" :> 5)),
     referrer_balances_keys |-> (1 :> <<"TKB-222222", "LPT-333333">>)]

InitConfig ==
    /\ vault = new
    /\ err = "none"
    /\ op = [name |-> "new", token |-> "", arg |-> 0]
    /\ ret = 0
    /\ pre = new
    /\ pc = "idle"
    /\ batch = NoBatch
    /\ ip = 0
    /\ instr = NoInstruction
    /\ payments = <<>>
    /\ back = <<>>
    /\ storage = InitialConfigStorage
    /\ storage_pre = storage
    /\ transfers = <<>>
    /\ log = <<>>

\* One transaction on the storage: endpoint name with arguments a and b, and
\* its result r.
Endpoint(name, a, b, r) ==
    /\ op' = [name |-> name, token |-> a, arg |-> b]
    /\ storage_pre' = storage
    /\ storage' = r.storage
    /\ err' = r.err
    /\ ret' = r.ret
    /\ vault' = new
    /\ pre' = new
    /\ UNCHANGED <<pc, batch, ip, instr, payments, back, transfers, log>>

\* The admin fee pool of a token in storage st, zero when it has no entry.
AdminFeeOrZero(st, token) ==
    IF MapContains(st.admin_fees, token) THEN st.admin_fees[token] ELSE 0

\* The pool of a referral in a token, zero when it has no entry.
ReferrerFeeOrZero(st, id, token) ==
    IF MapContains(st.referrer_balances, id) /\ MapContains(st.referrer_balances[id], token)
    THEN st.referrer_balances[id][token] ELSE 0

AddReferral ==
    /\ storage.referral_id_counter < MaxReferrals
    /\ \E owner \in Owners, fee \in RequestedFees :
          Endpoint("add_referral", owner, fee, add_referral(storage, owner, fee))

SetReferralFee ==
    /\ pc = "idle"
    /\ \E id \in RequestedIds, fee \in RequestedFees :
          Endpoint("set_referral_fee", id, fee, set_referral_fee(storage, id, fee))

AggregatorAddReferral ==
    /\ storage.referral_id_counter < MaxReferrals
    /\ \E owner \in Owners, fee \in RequestedFees :
          Endpoint("add_referral", owner, fee, aggregator_add_referral(storage, owner, fee))

AggregatorSetReferralFee ==
    /\ pc = "idle"
    /\ \E id \in RequestedIds, fee \in RequestedFees :
          Endpoint("set_referral_fee", id, fee, aggregator_set_referral_fee(storage, id, fee))

SetReferralActive ==
    /\ pc = "idle"
    /\ \E id \in RequestedIds, active \in BOOLEAN :
          Endpoint("set_referral_active", id, IF active THEN 1 ELSE 0,
                   set_referral_active(storage, id, active))

SetStaticFee ==
    /\ pc = "idle"
    /\ \E fee \in RequestedStaticFees :
          Endpoint("set_static_fee", "", fee, set_static_fee(storage, fee))

\* Step 5 of a successful batch: apply_fees on its ledger.  A failure aborts
\* the batch, which leaves the storage as it was.
FeeStep ==
    /\ pc = "idle"
    /\ \E output_balance \in OutputBalances, referral_id \in RequestedIds :
          LET r == apply_fees(LedgerWith(output_balance), storage, "TKB-222222", referral_id)
          IN  /\ AdminFeeOrZero(storage, "TKB-222222") <= MaxPool
              /\ op' = [name |-> "apply_fees", token |-> "TKB-222222", arg |-> referral_id]
              /\ storage_pre' = storage
              /\ pre' = LedgerWith(output_balance)
              /\ err' = r.err
              /\ ret' = 0
              /\ vault' = IF r.err = "none" THEN r.vault ELSE new
              /\ storage' = IF r.err = "none" THEN r.storage ELSE storage
              /\ UNCHANGED <<pc, batch, ip, instr, payments, back, transfers, log>>

NextConfig ==
    \/ AddReferral
    \/ SetReferralFee
    \/ SetReferralActive
    \/ SetStaticFee
    \/ FeeStep

SpecConfig == InitConfig /\ [][NextConfig]_vars

\* SpecAdmin: the same transactions with the referral endpoints of aggregator.rs.
NextAdmin ==
    \/ AggregatorAddReferral
    \/ AggregatorSetReferralFee
    \/ SetReferralActive
    \/ SetStaticFee
    \/ FeeStep

SpecAdmin == InitConfig /\ [][NextAdmin]_vars

\* SpecClaim: claims on fee pools of up to MAX_CLAIM_PAYMENTS + 2 assets.

\* The name of the i-th asset of a pool.
AssetName(i) == "TK" \o ToString(i) \o "-000000"

\* A fee map of n assets in the order they were first accrued: asset i holds i
\* units, but for the second one, to which only fees of zero were accrued.
PoolKeys(n) == [i \in 1..n |-> AssetName(i)]
PoolBalances(n) ==
    [t \in {AssetName(i) : i \in 1..n} |->
        LET i == CHOOSE j \in 1..n : AssetName(j) = t
        IN  IF i = 2 THEN 0 ELSE i]

PoolSizes == {0, 2, MAX_CLAIM_PAYMENTS + 1, MAX_CLAIM_PAYMENTS + 2}
Callers == {"erd1any", "erd1ref"}
NewOwners == {"erd1ref", "erd1new"}
ClaimIds == {0, 1, 2}

InitialClaimStorages ==
    {[static_fee |-> 0, referral_id_counter |-> 1,
      referral_config |-> (1 :> [owner |-> "erd1ref", fee |-> 100, active |-> TRUE]),
      admin_fees |-> PoolBalances(a), admin_fees_keys |-> PoolKeys(a),
      referrer_balances |-> IF n = 0 THEN <<>> ELSE (1 :> PoolBalances(n)),
      referrer_balances_keys |-> IF n = 0 THEN <<>> ELSE (1 :> PoolKeys(n))] :
        n \in PoolSizes, a \in PoolSizes}

InitClaim ==
    /\ vault = new
    /\ err = "none"
    /\ op = [name |-> "new", token |-> "", arg |-> 0]
    /\ ret = 0
    /\ pre = new
    /\ pc = "idle"
    /\ batch = NoBatch
    /\ ip = 0
    /\ instr = NoInstruction
    /\ payments = <<>>
    /\ back = <<>>
    /\ storage \in InitialClaimStorages
    /\ storage_pre = storage
    /\ transfers = <<>>
    /\ log = <<>>

\* One claim transaction with result r: the payments are transferred, or the
\* transfer fails at the receiver's end and the transaction with it.
Claim(name, a, b, r) ==
    /\ op' = [name |-> name, token |-> a, arg |-> b]
    /\ storage_pre' = storage
    /\ \/ /\ storage' = r.storage
          /\ err' = r.err
          /\ transfers' = IF r.payments = <<>> THEN <<>>
                          ELSE << [to |-> r.to, payments |-> r.payments] >>
       \/ /\ r.payments # <<>>
          /\ storage' = storage
          /\ err' = "TransferFailed"
          /\ transfers' = <<>>
    /\ UNCHANGED <<vault, pre, ret, pc, batch, ip, instr, payments, back, log>>

ClaimReferralFees ==
    /\ pc = "idle"
    /\ \E referral_id \in ClaimIds, caller \in Callers :
          Claim("claim_referral_fees", caller, referral_id,
                claim_referral_fees(storage, referral_id))

ClaimAdminFees ==
    /\ pc = "idle"
    /\ \E recipient \in NewOwners :
          Claim("claim_admin_fees", recipient, 0, claim_admin_fees(storage, recipient))

SetReferralOwner ==
    /\ pc = "idle"
    /\ \E id \in ClaimIds, new_owner \in NewOwners :
          Endpoint("set_referral_owner", new_owner, id,
                   set_referral_owner(storage, id, new_owner))

NextClaim ==
    \/ ClaimReferralFees
    \/ ClaimAdminFees
    \/ SetReferralOwner

SpecClaim == InitClaim /\ [][NextClaim]_vars

-----------------------------------------------------------------------------
(* SpecBatches: calls of the endpoint one after the other *)

\* How many calls follow one another.
MaxBatches == 2

\* The tuples of SpecBatches: a swap of all of the native coin and a swap
\* chained on the previous result.
BatchTuples == {SwapAll, SwapChained}
BatchInstructionLists == SeqsUpTo(BatchTuples, MaxInstrs)

\* A call with any batch of SpecBatches' instruction lists.
StartBatchOfSequence ==
    /\ pc = "idle"
    /\ \E instructions \in BatchInstructionLists : aggregate(instructions)

\* The call has returned or has been aborted: its memory, the ledger with it,
\* is gone; the contract's storage stays and is what the next call reads.
\* op.arg counts the calls that have ended.
CallEnds ==
    /\ pc \in {"done", "aborted"}
    /\ op.arg + 1 < MaxBatches
    /\ op' = [op EXCEPT !.arg = op.arg + 1]
    /\ pc' = "idle"
    /\ err' = "none"
    /\ batch' = NoBatch
    /\ ip' = 0
    /\ instr' = NoInstruction
    /\ payments' = <<>>
    /\ back' = <<>>
    /\ transfers' = <<>>
    /\ log' = <<>>
    /\ storage_pre' = storage
    /\ UNCHANGED <<vault, ret, pre, storage>>

NextBatches ==
    \/ StartBatchOfSequence
    \/ Decode
    \/ WithdrawInputs
    \/ Dispatch
    \/ DepositResults
    \/ CheckMinimum
    \/ ApplyFees
    \/ ReturnVault
    \/ CallEnds

SpecBatches == Init /\ [][NextBatches]_vars

-----------------------------------------------------------------------------
(* SpecPayment: Vault::from_payment on single payments *)

\* The payments of a call: the host delivers no payment of amount zero.
DepositNonces == {0, 1, 2}
DepositAmounts == (1..MaxBalance) \cup {100, 1000}
DepositPayments == PaymentIds \X DepositNonces \X DepositAmounts

InitPayment ==
    /\ vault = new
    /\ err = "none"
    /\ \E payment \in DepositPayments : op = [name |-> "payment", token |-> "", arg |-> payment]
    /\ ret = 0
    /\ pre = new
    /\ pc = "idle"
    /\ batch = NoBatch
    /\ ip = 0
    /\ instr = NoInstruction
    /\ payments = <<>>
    /\ back = <<>>
    /\ storage = NoStorage
    /\ storage_pre = NoStorage
    /\ transfers = <<>>
    /\ log = <<>>

\* The call of Vault::from_payment on the payment.
VaultFromPayment ==
    /\ op.name = "payment"
    /\ LET r == from_payment(op.arg[1], op.arg[2], op.arg[3])
       IN  /\ op' = [op EXCEPT !.name = "from_payment"]
           /\ vault' = r.vault
           /\ ret' = r.ret
           /\ err' = r.err
    /\ UNCHANGED <<pre, pc, batch, ip, instr, payments, back, storage, storage_pre,
                   transfers, log>>

NextPayment ==
    \/ VaultFromPayment

SpecPayment == InitPayment /\ [][NextPayment]_vars

-----------------------------------------------------------------------------
(* SpecPreBalance: the solver call and the swap request of *)
(* pre_balance_and_add_liquidity *)

\* pre_balance_and_add_liquidity, steps 1 to 4 up to the swap request: the
\* balances are the amounts of the payments in their order, the reserves are
\* the pool's in the pool's order; the swap pays the first or the second
\* payment's token.  xExchange is asked for the pool's second or first token,
\* OneDex is given the path between the pool's tokens, Jex is given no token
\* and swaps to the other token of the pair.
pre_balance_swap_request(ps, pool, action) ==
    LET balance_first == ps[1][2]
        balance_second == ps[2][2]
        token_first == ps[1][1]
        token_second == ps[2][1]
        fee_mode == IF action = "JexAddLiquidity"
                    THEN OnOutput(pool.fee[3]) ELSE OnInput(pool.fee[2])
        pre_swap == compute_optimal_pre_swap(balance_first, balance_second,
                                             pool.reserve_first, pool.reserve_second,
                                             pool.fee[1], pool.fee[4], fee_mode)
        paid == IF pre_swap[1] THEN token_first ELSE token_second
        requested ==
            IF action = "JexAddLiquidity"
            THEN (IF paid = pool.first_token THEN pool.second_token ELSE pool.first_token)
            ELSE (IF pre_swap[1] THEN pool.second_token ELSE pool.first_token)
    IN  [balance_first |-> balance_first, balance_second |-> balance_second,
         reserve_first |-> pool.reserve_first, reserve_second |-> pool.reserve_second,
         swap_from_first |-> pre_swap[1], swap_amount |-> pre_swap[2],
         paid |-> paid, requested |-> requested]

\* The pairs: tokens and reserves in the pool's order, and the fee of get_fee.
PairFirstToken == "TKA-111111"
PairSecondToken == "TKB-222222"
PairsWithTokens ==
    { [first_token |-> PairFirstToken, second_token |-> PairSecondToken,
       reserve_first |-> p.reserve_first, reserve_second |-> p.reserve_second,
       fee |-> p.fee] : p \in Pools }

\* The two input payments, in the pool's order or the other way round.
HeldOfPair == {10, 50, 100}
PairPayments ==
    { << <<PairFirstToken, a>>, <<PairSecondToken, b>> >> : a, b \in HeldOfPair }
    \cup { << <<PairSecondToken, b>>, <<PairFirstToken, a>> >> : a, b \in HeldOfPair }

ZappableActions == {"XExchangeAddLiquidity", "OneDexAddLiquidity", "JexAddLiquidity"}

InitPreBalance ==
    /\ vault = new
    /\ err = "none"
    /\ \E ps \in PairPayments, pool \in PairsWithTokens, action \in ZappableActions :
          op = [name |-> "payments", token |-> action, arg |-> [payments |-> ps, pool |-> pool]]
    /\ ret = <<>>
    /\ pre = new
    /\ pc = "idle"
    /\ batch = NoBatch
    /\ ip = 0
    /\ instr = NoInstruction
    /\ payments = <<>>
    /\ back = <<>>
    /\ storage = NoStorage
    /\ storage_pre = NoStorage
    /\ transfers = <<>>
    /\ log = <<>>

\* The solver is called and the swap request is made up.
PreBalanceSwapRequest ==
    /\ op.name = "payments"
    /\ op' = [op EXCEPT !.name = "pre_balance_and_add_liquidity"]
    /\ ret' = pre_balance_swap_request(op.arg.payments, op.arg.pool, op.token)
    /\ UNCHANGED <<vault, err, pre, pc, batch, ip, instr, payments, back, storage,
                   storage_pre, transfers, log>>

NextPreBalance ==
    \/ PreBalanceSwapRequest

SpecPreBalance == InitPreBalance /\ [][NextPreBalance]_vars

-----------------------------------------------------------------------------
(* SpecZap: the pre-swap solver on held amounts, reserves and fees *)

\* The inputs of the solver.
HeldAmounts == {0, 1, 50, 100, 500}
ReserveAmounts == {0, 100, 1000, 2000}
FeeFractions == {<<0, 1000>>, <<3, 1000>>, <<1001, 1000>>}
FeeModes == {OnInput(0), OnInput(1), OnOutput(0), OnOutput(1)}

SolverInputs ==
    [balance_first : HeldAmounts, balance_second : HeldAmounts,
     reserve_first : ReserveAmounts, reserve_second : ReserveAmounts,
     fee : FeeFractions, fee_mode : FeeModes]

InitZap ==
    /\ vault = new
    /\ err = "none"
    /\ \E in \in SolverInputs : op = [name |-> "inputs", token |-> "", arg |-> in]
    /\ ret = <<>>
    /\ pre = new
    /\ pc = "idle"
    /\ batch = NoBatch
    /\ ip = 0
    /\ instr = NoInstruction
    /\ payments = <<>>
    /\ back = <<>>
    /\ storage = NoStorage
    /\ storage_pre = NoStorage
    /\ transfers = <<>>
    /\ log = <<>>

\* The call of compute_optimal_pre_swap on the inputs.
Solve ==
    /\ op.name = "inputs"
    /\ op' = [op EXCEPT !.name = "compute_optimal_pre_swap"]
    /\ ret' = compute_optimal_pre_swap(op.arg.balance_first, op.arg.balance_second,
                                       op.arg.reserve_first, op.arg.reserve_second,
                                       op.arg.fee[1], op.arg.fee[2], op.arg.fee_mode)
    /\ UNCHANGED <<vault, err, pre, pc, batch, ip, instr, payments, back, storage,
                   storage_pre, transfers, log>>

NextZap ==
    \/ Solve

SpecZap == InitZap /\ [][NextZap]_vars

-----------------------------------------------------------------------------
(* SpecSearch: the loop of binary_search_pre_swap, pass by pass *)

\* The inputs compute_optimal_pre_swap hands to the search: held amounts and
\* reserves above zero, out of proportion.
SearchInputs ==
    { in \in SolverInputs :
        /\ in.balance_first > 0 /\ in.balance_second > 0
        /\ in.reserve_first > 0 /\ in.reserve_second > 0
        /\ in.balance_first * in.reserve_second # in.balance_second * in.reserve_first }

\* The values of one call of binary_search_pre_swap.
SearchCall(in) ==
    LET swap_from_first ==
            in.balance_first * in.reserve_second > in.balance_second * in.reserve_first
    IN  [swap_from_first |-> swap_from_first,
         swap_balance |-> IF swap_from_first THEN in.balance_first ELSE in.balance_second,
         other_balance |-> IF swap_from_first THEN in.balance_second ELSE in.balance_first,
         reserve_in |-> IF swap_from_first THEN in.reserve_first ELSE in.reserve_second,
         reserve_out |-> IF swap_from_first THEN in.reserve_second ELSE in.reserve_first,
         fee_num |-> in.fee[1], fee_denom |-> in.fee[2], fee_mode |-> in.fee_mode]

\* The loop's variables before the first pass.
SearchStart(c) ==
    [i |-> 0, low |-> 0, high |-> c.swap_balance, best_swap |-> 0,
     best_dust |-> c.swap_balance, done |-> FALSE, result |-> 0,
     mid |-> 0, from_low |-> 0, from_high |-> c.swap_balance, evaluated |-> FALSE,
     dust |-> 0]

InitSearch ==
    /\ vault = new
    /\ err = "none"
    /\ \E in \in SearchInputs :
          /\ op = [name |-> "binary_search_pre_swap", token |-> "", arg |-> in]
          /\ ret = SearchStart(SearchCall(in))
    /\ pre = new
    /\ pc = "idle"
    /\ batch = NoBatch
    /\ ip = 0
    /\ instr = NoInstruction
    /\ payments = <<>>
    /\ back = <<>>
    /\ storage = NoStorage
    /\ storage_pre = NoStorage
    /\ transfers = <<>>
    /\ log = <<>>

\* One pass of the loop; log keeps the passes made.
SearchPass ==
    /\ op.name = "binary_search_pre_swap"
    /\ ~ret.done
    /\ ret' = binary_search_iteration(ret, SearchCall(op.arg))
    /\ log' = Append(log, ret')
    /\ UNCHANGED <<vault, err, op, pre, pc, batch, ip, instr, payments, back, storage,
                   storage_pre, transfers>>

NextSearch ==
    \/ SearchPass

SpecSearch == InitSearch /\ [][NextSearch]_vars

-----------------------------------------------------------------------------
(* SpecSimulate: simulate_swap_output on single swaps *)

\* Amounts and reserves, zero included; fee numerators up to the denominator
\* and one above it; the numerator carried by the fee mode up to the
\* denominator, so that fee_denom - lp_fee_num stays within u64.
SimulateAmounts == {0, 1, 7, 100, 500}
SimulateReserves == {0, 1, 100, 999, 2000}
SimulateDenominators == {100, 1000}
SimulateNumerators(fee_denom) == {0, 3, (3 * fee_denom) \div 10, fee_denom, fee_denom + 1}
SimulateInputs ==
    { in \in [amount_in : SimulateAmounts, reserve_in : SimulateReserves,
              reserve_out : SimulateReserves, fee_denom : SimulateDenominators,
              fee_num : UNION { SimulateNumerators(d) : d \in SimulateDenominators },
              mode_kind : {"OnInput", "OnOutput"},
              mode_num : UNION { SimulateNumerators(d) : d \in SimulateDenominators }] :
        /\ in.fee_num \in SimulateNumerators(in.fee_denom)
        /\ in.mode_num \in SimulateNumerators(in.fee_denom)
        /\ in.mode_num <= in.fee_denom }

InitSimulate ==
    /\ vault = new
    /\ err = "none"
    /\ \E in \in SimulateInputs : op = [name |-> "swap", token |-> "", arg |-> in]
    /\ ret = <<0, 0, 0>>
    /\ pre = new
    /\ pc = "idle"
    /\ batch = NoBatch
    /\ ip = 0
    /\ instr = NoInstruction
    /\ payments = <<>>
    /\ back = <<>>
    /\ storage = NoStorage
    /\ storage_pre = NoStorage
    /\ transfers = <<>>
    /\ log = <<>>

Simulate ==
    /\ op.name = "swap"
    /\ LET in == op.arg
       IN  ret' = simulate_swap_output(in.amount_in, in.reserve_in, in.reserve_out,
                      in.fee_num, in.fee_denom,
                      IF in.mode_kind = "OnInput" THEN OnInput(in.mode_num)
                      ELSE OnOutput(in.mode_num))
    /\ op' = [op EXCEPT !.name = "simulate_swap_output"]
    /\ UNCHANGED <<vault, err, pre, pc, batch, ip, instr, payments, back, storage,
                   storage_pre, transfers, log>>

NextSimulate ==
    \/ Simulate

SpecSimulate == InitSimulate /\ [][NextSimulate]_vars

-----------------------------------------------------------------------------
(* SpecDecode: the decoder on single compact tuples *)

\* The bytes of the tuples: every action byte and one above, 255; registry
\* indices in range and out of range, and the sentinels.
ActionBytes == 0..(Len(CompactActions) + 1) \cup {255}
TokenBytes == {0, 2, IDX_EGLD, IDX_NONE}
AddressIndexes == {0, 1, IDX_AUTO, 256 + IDX_AUTO}

\* Bytes 2 to 4 are a token index or a mode, by the action's layout.
TokenOrModeBytes == {0, 1, 2, 100, MODE_PPM_THRESHOLD, IDX_NONE}

CompactTuplesOfDecoder ==
    ActionBytes \X TokenBytes \X {0, 1, 2, IDX_NONE} \X TokenOrModeBytes
        \X {0, 1, MODE_PPM_THRESHOLD, IDX_NONE} \X AddressIndexes

InitDecode ==
    /\ vault = new
    /\ err = "none"
    /\ \E t \in CompactTuplesOfDecoder : op = [name |-> "tuple", token |-> "", arg |-> t]
    /\ ret = <<>>
    /\ pre = new
    /\ pc = "idle"
    /\ batch = NoBatch
    /\ ip = 0
    /\ instr = NoInstruction
    /\ payments = <<>>
    /\ back = <<>>
    /\ storage = NoStorage
    /\ storage_pre = NoStorage
    /\ transfers = <<>>
    /\ log = <<>>

\* The call of decode_compact_instruction on the tuple.
DecodeTuple ==
    /\ op.name = "tuple"
    /\ op' = [op EXCEPT !.name = "decode_compact_instruction"]
    /\ ret' = decode_compact_instruction(op.arg, TokenRegistry, AddressRegistry, AmountRegistry)
    /\ UNCHANGED <<vault, err, pre, pc, batch, ip, instr, payments, back, storage,
                   storage_pre, transfers, log>>

NextDecode ==
    \/ DecodeTuple

SpecDecode == InitDecode /\ [][NextDecode]_vars

-----------------------------------------------------------------------------
(* SpecMode: the decoding of single mode bytes *)

\* Every mode byte but the two Fixed bytes of the registry values of 2^32 and
\* more, which no ledger of the model holds as a number.
ModeBytesOfDecoder == (0..255) \ {5, 6}

InitMode ==
    /\ vault = new
    /\ err = "none"
    /\ \E m \in ModeBytesOfDecoder : op = [name |-> "mode", token |-> "", arg |-> m]
    /\ ret = Val([kind |-> "All", val |-> 0])
    /\ pre = new
    /\ pc = "idle"
    /\ batch = NoBatch
    /\ ip = 0
    /\ instr = NoInstruction
    /\ payments = <<>>
    /\ back = <<>>
    /\ storage = NoStorage
    /\ storage_pre = NoStorage
    /\ transfers = <<>>
    /\ log = <<>>

\* CompactMode::from_u8 on the byte, then compact_mode_to_amount_mode on the
\* registry of amounts.
DecodeMode ==
    /\ op.name = "mode"
    /\ ret' = compact_mode_to_amount_mode(CompactMode_from_u8(op.arg), AmountRegistry)
    /\ op' = [op EXCEPT !.name = "compact_mode_to_amount_mode"]
    /\ UNCHANGED <<vault, err, pre, pc, batch, ip, instr, payments, back, storage,
                   storage_pre, transfers, log>>

NextMode ==
    \/ DecodeMode

SpecMode == InitMode /\ [][NextMode]_vars

-----------------------------------------------------------------------------
(* Properties of the ledger, checked under SpecVault *)

\* The balance of a token in ledger v, an absent token counting as zero.
BalanceOrZero(v, token) == IF MapContains(v.balances, token) THEN v.balances[token] ELSE 0

InList(v, token) == \E i \in 1..Len(v.tokens) : v.tokens[i] = token

\* C1: after any sequence of ledger operations the ordered token list has no
\* duplicates, lists exactly the keys of the balance map, and every stored
\* balance is strictly positive.
C1_LedgerInvariant ==
    /\ \A i, j \in 1..Len(vault.tokens) : vault.tokens[i] = vault.tokens[j] => i = j
    /\ {vault.tokens[i] : i \in 1..Len(vault.tokens)} = DOMAIN vault.balances
    /\ \A t \in DOMAIN vault.balances : vault.balances[t] > 0

\* C1 witness: an exact depletion has removed the middle entry of a ledger that
\* held three assets.
C1_Witness ==
    /\ op.name = "withdraw" /\ err = "none"
    /\ Len(pre.tokens) = 3 /\ pre.tokens[2] = op.token
    /\ Len(vault.tokens) = 2 /\ ~MapContains(vault.balances, op.token)

\* C8: withdraw(asset, amount) with balance (zero if absent) below amount fails
\* with InsufficientBalance and leaves the ledger unchanged; otherwise it returns
\* amount, reduces the balance by exactly amount and, on exact depletion,
\* removes the asset from the map and from the list.
C8_WithdrawContract ==
    op.name = "withdraw" =>
        LET b == BalanceOrZero(pre, op.token)
        IN  IF b < op.arg
            THEN err = "InsufficientBalance" /\ vault = pre
            ELSE /\ err = "none"
                 /\ ret = op.arg
                 /\ BalanceOrZero(vault, op.token) = b - op.arg
                 /\ (b = op.arg =>
                        ~MapContains(vault.balances, op.token) /\ ~InList(vault, op.token))

\* C9: withdraw_all(asset) never fails: for a present asset it returns the full
\* balance and removes the asset from the map and the list; for an absent asset
\* it returns zero and leaves the ledger unchanged.
C9_WithdrawAllNeverFails ==
    op.name = "withdraw_all" =>
        /\ err = "none"
        /\ ret = BalanceOrZero(pre, op.token)
        /\ ~MapContains(vault.balances, op.token) /\ ~InList(vault, op.token)
        /\ (~MapContains(pre.balances, op.token) => vault = pre)

\* C10: for an asset held with balance B and ppm in 0..1,000,000, withdraw_ppm
\* returns floor(B * ppm / 1,000,000), which is at most B, and reduces the
\* balance by exactly that; ppm = 1,000,000 withdraws B and removes the entry,
\* ppm = 0 withdraws 0 and leaves the ledger unchanged.
C10_WithdrawPpm ==
    (op.name = "withdraw_ppm" /\ MapContains(pre.balances, op.token) /\ op.arg <= PPM_SCALE) =>
        LET B == pre.balances[op.token]
        IN  /\ err = "none"
            /\ ret * PPM_SCALE <= B * op.arg
            /\ B * op.arg < (ret + 1) * PPM_SCALE
            /\ ret <= B
            /\ BalanceOrZero(vault, op.token) = B - ret
            /\ \A t \in Tokens \ {op.token} : BalanceOrZero(vault, t) = BalanceOrZero(pre, t)
            /\ (op.arg = PPM_SCALE =>
                    /\ ret = B
                    /\ ~MapContains(vault.balances, op.token) /\ ~InList(vault, op.token))
            /\ (op.arg = 0 => ret = 0 /\ vault = pre)

\* C10 witness: half of a balance of 3 has been withdrawn, truncated to 1.
C10_Witness ==
    /\ op.name = "withdraw_ppm" /\ err = "none"
    /\ op.arg = 500000
    /\ BalanceOrZero(pre, op.token) = 3
    /\ ret = 1
    /\ BalanceOrZero(vault, op.token) = 2

-----------------------------------------------------------------------------
(* Properties of the execution engine, checked under Spec *)

\* Positions of the log.
Steps == 1..Len(log)

\* The batch's steps of one kind for instruction i (i = 0: steps after the loop).
StepsOf(kind, i) == {p \in Steps : log[p].kind = kind /\ log[p].i = i}

\* Number of instructions in the batch.
NumInstrs == Len(batch.instructions)

\* The batch has made a venue call.
VenueCalled == \E p \in Steps : log[p].kind = "call"

\* An earlier pre-balanced liquidity step of the batch has accrued dust.
DustAccrued == \E p \in Steps : log[p].kind = "deposit" /\ log[p].b # <<>>

\* The referral of the batch is valid: configured, active, with a fee.
ValidReferral ==
    /\ batch.referral_id > 0
    /\ MapContains(storage_pre.referral_config, batch.referral_id)
    /\ storage_pre.referral_config[batch.referral_id].active
    /\ storage_pre.referral_config[batch.referral_id].fee > 0

\* C2: a batch in which a step fails ends Aborted: an error is signalled exactly
\* when the batch is Aborted, an Aborted batch has made no transfer to the
\* caller, the persistent referrer and protocol fee pools (the whole storage)
\* equal their pre-batch values, nothing of the ledger survives, and no further
\* step of the batch is taken.
C2_AbortIsAtomic ==
    /\ [](/\ (err # "none") <=> (pc = "aborted")
          /\ pc = "aborted" =>
                /\ transfers = <<>>
                /\ storage = storage_pre
                /\ vault = new)
    /\ [][pc # "aborted"]_vars

\* C2 witness: the minimum-output check has failed after a pre-balanced
\* liquidity step of the same batch had accrued dust to the protocol pool.
C2_Witness ==
    /\ pc = "aborted" /\ err = "InsufficientOutput"
    /\ DustAccrued
    /\ storage = storage_pre
    /\ transfers = <<>>

\* C3: when the instruction loop has ended with the output asset's ledger
\* balance (zero if the asset is absent) below min_amount_out, the batch fails
\* with InsufficientOutput, without transfer and without fee accrual.
C3_SlippageGate ==
    [][(pc = "check" /\ BalanceOrZero(vault, batch.token_out_id) < batch.min_amount_out)
        => (/\ pc' = "aborted"
            /\ err' = "InsufficientOutput"
            /\ transfers' = <<>>
            /\ storage' = storage_pre)]_vars

\* C4: a batch that completes has transferred at least min_amount_out of the
\* output asset to the caller.
C4_MinOutputDelivered ==
    pc = "done" => TotalOf(transfers, batch.token_out_id) >= batch.min_amount_out

\* Position of a step in the order aggregate prescribes: instruction by
\* instruction withdraw, call, deposit; then check, fees, transfer.
Rank(e) ==
    IF e.kind = "decode" THEN 10 * e.i
    ELSE IF e.kind = "withdraw" THEN 10 * e.i + 1
    ELSE IF e.kind = "call" THEN 10 * e.i + 2
    ELSE IF e.kind = "deposit" THEN 10 * e.i + 3
    ELSE IF e.kind = "check" THEN 10 * (NumInstrs + 1)
    ELSE IF e.kind = "fees" THEN 10 * (NumInstrs + 1) + 1
    ELSE 10 * (NumInstrs + 1) + 2

Before(kind, i, p) == \E q \in StepsOf(kind, i) : q < p

\* C5: instructions are processed one at a time in list order, each as
\* withdraw, then venue call, then deposit; the minimum-output check comes only
\* after the last instruction has finished, the fees only after a check that
\* passed, the transfer to the caller only after the fees.
C5_StepOrder ==
    /\ \A p, q \in Steps :
          p < q => \/ Rank(log[p]) < Rank(log[q])
                   \/ Rank(log[p]) = Rank(log[q]) /\ log[p].kind = "call"
    /\ \A p \in Steps :
          /\ log[p].kind = "call" => Before("withdraw", log[p].i, p)
          /\ log[p].kind = "deposit" => Before("call", log[p].i, p)
          /\ (log[p].i > 1 /\ log[p].kind = "withdraw") => Before("deposit", log[p].i - 1, p)
          /\ log[p].kind = "check" => \A i \in 1..NumInstrs : Before("deposit", i, p)
          /\ log[p].kind = "fees" =>
                \E q \in StepsOf("check", 0) :
                    q < p /\ log[q].a[1][2] >= batch.min_amount_out
          /\ log[p].kind = "transfer" => Before("fees", 0, p)

\* C5 witness: a batch of two instructions has completed, every step taken.
C5_Witness ==
    /\ pc = "done"
    /\ NumInstrs = 2
    /\ \A i \in 1..2 : StepsOf("withdraw", i) # {} /\ StepsOf("call", i) # {}
                       /\ StepsOf("deposit", i) # {}
    /\ log[Len(log)].kind = "transfer"
    /\ transfers # <<>>

\* The action byte of tuple j is one of the 25 actions.
ValidActionByte(j) == batch.instructions[j][1] < Len(CompactActions)

\* C6 as stated: no withdrawal and no venue call happens before every tuple of
\* the batch has been decoded, so a batch with an invalid action byte anywhere
\* fails with InvalidAction without any venue call.
C6_DecodeAllFirst ==
    /\ \A p \in Steps :
          log[p].kind \in {"withdraw", "call"} =>
              \A j \in 1..NumInstrs : Before("decode", j, p)
    /\ (/\ pc \in {"done", "aborted"}
        /\ log # <<>>
        /\ \E j \in 1..NumInstrs : ~ValidActionByte(j))
       => (err = "InvalidAction" /\ ~VenueCalled)

\* C6 amended: a tuple is decoded right before its own instruction executes.  A
\* withdrawal or venue call of instruction k happens only after tuples 1..k have
\* been decoded, all with a valid action byte; reaching a tuple with an invalid
\* action byte ends the batch at once with InvalidAction, so no withdrawal and
\* no venue call is made for that instruction or a later one.
C6_DecodeBeforeOwnExecution ==
    /\ \A p \in Steps :
          log[p].kind \in {"withdraw", "call"} =>
              \A j \in 1..log[p].i : Before("decode", j, p) /\ ValidActionByte(j)
    /\ \A p \in Steps :
          (log[p].kind = "decode" /\ ~ValidActionByte(log[p].i)) =>
              /\ p = Len(log)
              /\ pc = "aborted"
              /\ err = "InvalidAction"

\* C6 witness: the second tuple's invalid action byte has failed the batch after
\* the first instruction's venue call was made and its results deposited.
C6_Witness ==
    /\ pc = "aborted" /\ err = "InvalidAction"
    /\ ip = 2
    /\ StepsOf("call", 1) # {} /\ StepsOf("deposit", 1) # {}
    /\ StepsOf("decode", 2) # {}

\* C7: in a completed batch with no fee, no dust and venue calls that each
\* returned in total exactly what they were paid, the total transferred to the
\* caller over all assets equals the total deposited.
C7_Conservation ==
    (/\ pc = "done"
     /\ storage_pre.static_fee = 0 /\ ~ValidReferral
     /\ ~DustAccrued
     /\ \A p \in Steps : log[p].kind = "call" => Total(log[p].b) = Total(log[p].a))
    => Total(transfers) = batch.payment[3]

\* The amounts-registry value a Ppm mode byte refers to, as limbs.
PpmRegistryValue(byte) == AmountRegistry[(byte - MODE_PPM_THRESHOLD) + 1]

\* A BigUint above 1,000,000, decided on its limbs.
ExceedsPpmScale(big) ==
    \/ \E k \in 3..Len(big) : big[k] # 0
    \/ Limb(big, 2) > PPM_SCALE \div LimbBase
    \/ Limb(big, 2) = PPM_SCALE \div LimbBase /\ Limb(big, 1) > PPM_SCALE % LimbBase

\* The current tuple is a swap whose single input has a Ppm mode with a registry
\* value above 1,000,000.
OverLimitPpmInput ==
    /\ ip \in 1..NumInstrs
    /\ batch.instructions[ip][1] = 0
    /\ batch.instructions[ip][4] >= MODE_PPM_THRESHOLD
    /\ ExceedsPpmScale(PpmRegistryValue(batch.instructions[ip][4]))

\* C11: an input whose Ppm registry value exceeds 1,000,000 fails the batch
\* with InvalidPpm when it is consumed and withdraws nothing, whatever the size
\* of the value.
C11_OverLimitPpmRejected ==
    [][(pc = "withdraw" /\ OverLimitPpmInput)
        => (pc' = "aborted" /\ err' = "InvalidPpm")]_vars

\* The assets the model's ledgers can hold during a call.
EngineTokens == {EGLD_000000_TOKEN_IDENTIFIER, "TKB-222222", "LPT-333333"}

\* The last step logged.
LastStep == log[Len(log)]

\* C13: the result handling of a direct dispatch raises the ledger balance of
\* every asset by exactly what the venue returned of it, and a single returned
\* payment becomes the previous result.
C13_DirectResultsDeposited ==
    [][pc = "deposit" =>
        /\ \A t \in EngineTokens :
              BalanceOrZero(vault', t) = BalanceOrZero(vault, t) + TotalOf(back, t)
        /\ Len(back) = 1 => vault'.prev_result = Some(back[1][1], back[1][2])]_vars

\* C13 witness: the single back-transfer of a direct dispatch has been added to
\* a balance the ledger already held, and is the previous result.
C13_Witness ==
    /\ err = "none" /\ log # <<>>
    /\ LastStep.kind = "deposit" /\ LastStep.i = 2
    /\ ~is_zappable_add_liquidity(instr.action)
    /\ Len(LastStep.a) = 1
    /\ vault.prev_result = Some(LastStep.a[1][1], LastStep.a[1][2])
    /\ BalanceOrZero(vault, LastStep.a[1][1]) > LastStep.a[1][2]

\* C14: the previous result of a ledger changes only in the result handling of
\* a direct dispatch that returned exactly one payment, and then to that
\* payment; withdrawals in every mode, input resolution, the deposits of a
\* pre-balanced liquidity dispatch and result handling of zero or several
\* payments leave it as it is.  (The ledger itself ends with the call.)
C14_PrevResultFrame ==
    [][(vault'.prev_result # vault.prev_result /\ pc' # "aborted" /\ pc # "return") =>
        /\ pc = "deposit"
        /\ Len(back) = 1
        /\ vault'.prev_result = Some(back[1][1], back[1][2])]_vars

\* C14 witness: a second instruction's dispatch returned two payments, both
\* deposited, and the previous result is still the first instruction's output.
C14_Witness ==
    /\ err = "none" /\ log # <<>>
    /\ LastStep.kind = "deposit" /\ LastStep.i = 2
    /\ Len(LastStep.a) + Len(LastStep.b) = 2
    /\ vault.prev_result # None
    /\ \E p \in StepsOf("call", 1) : log[p].b = <<vault.prev_result>>

\* Instruction i of the batch, decoded.
Decoded(i) ==
    decode_compact_instruction(batch.instructions[i], TokenRegistry, AddressRegistry,
                               AmountRegistry).val

\* The positions in instruction i's payments that come from the previous
\* result: the only payment of an instruction without input list, and the
\* payments of the inputs with PrevAmount mode.
PrevPositions(i) ==
    IF ~Decoded(i).inputs.some THEN {1}
    ELSE {k \in 1..Len(Decoded(i).inputs.list) :
             Decoded(i).inputs.list[k].mode.kind = "PrevAmount"}

\* C15: an input that is resolved from the previous result uses the asset and
\* amount of the single output of the instruction right before it.
C15_PrevIsImmediatelyPreceding ==
    \A p \in Steps :
        (log[p].kind = "withdraw" /\ PrevPositions(log[p].i) # {}) =>
            /\ log[p].i > 1
            /\ \E q \in StepsOf("call", log[p].i - 1) :
                  /\ Len(log[q].b) = 1
                  /\ \A k \in PrevPositions(log[p].i) : log[p].a[k] = log[q].b[1]

\* The instruction being executed has an input list whose first input has
\* PrevAmount mode.
FirstInputIsPrevAmount ==
    /\ instr # NoInstruction
    /\ instr.inputs.some
    /\ Len(instr.inputs.list) > 0
    /\ instr.inputs.list[1].mode.kind = "PrevAmount"

\* An earlier instruction of the batch got a single payment back from its venue.
SingleOutputProduced ==
    \E q \in Steps : log[q].kind = "call" /\ log[q].i < ip /\ Len(log[q].b) = 1

\* The step leaves the batch aborted with this reason, with nothing withdrawn
\* for the instruction and no venue call made for it.
AbortsBeforeCall(reason) ==
    /\ pc' = "aborted"
    /\ err' = reason
    /\ vault' = new
    /\ \A p \in 1..Len(log') : log'[p].i = ip => log'[p].kind = "decode"

\* C16: an input with PrevAmount mode fails with PrevAmountUnavailable when no
\* earlier instruction of the batch produced a single output, and with
\* PrevAmountMismatch when its asset is not the asset of the previous result;
\* either way nothing is withdrawn and the instruction's venue is not called.
C16_PrevAmountErrors ==
    [][(pc = "withdraw" /\ FirstInputIsPrevAmount) =>
          /\ ~SingleOutputProduced => AbortsBeforeCall("PrevAmountUnavailable")
          /\ (vault.prev_result # None
                /\ instr.inputs.list[1].token # vault.prev_result[1])
                => AbortsBeforeCall("PrevAmountMismatch")]_vars

\* Both failures happen: at the first instruction there is no previous result,
\* and at the second one the previous result is of another asset.
C16_Witness ==
    /\ pc = "aborted"
    /\ err = "PrevAmountMismatch"
    /\ ip = 2
    /\ \E q \in StepsOf("call", 1) : Len(log[q].b) = 1
    /\ StepsOf("withdraw", 2) = {} /\ StepsOf("call", 2) = {}

\* The amount an input's mode stands for on ledger v is zero: Fixed(0), a Ppm
\* fraction of the balance that floors to 0, or All of an asset with no balance.
ResolvesToZero(v, input) ==
    IF input.mode.kind = "Fixed" THEN input.mode.val = 0
    ELSE IF input.mode.kind = "Ppm"
         THEN /\ input.mode.val <= PPM_SCALE
              /\ (BalanceOrZero(v, input.token) * input.mode.val) \div PPM_SCALE = 0
    ELSE IF input.mode.kind = "All" THEN BalanceOrZero(v, input.token) = 0
    ELSE FALSE

\* C17: an instruction whose input list starts with an input that resolves to
\* amount zero fails the batch with ZeroInput, and every payment forwarded to
\* a venue has a strictly positive amount.
C17_ZeroInputRejected ==
    [][/\ (pc = "withdraw" /\ instr.inputs.some /\ Len(instr.inputs.list) > 0
             /\ ResolvesToZero(vault, instr.inputs.list[1]))
          => (pc' = "aborted" /\ err' = "ZeroInput")
       /\ (pc = "dispatch" /\ Len(log') > Len(log))
          => \A k \in 1..Len(log'[Len(log')].a) : log'[Len(log')].a[k][2] > 0]_vars

\* The instruction being executed has no input list.
NoInputList == instr # NoInstruction /\ ~instr.inputs.some

\* The ledger holds the previous result: its asset, and at least its amount.
PrevResultCovered ==
    /\ vault.prev_result # None
    /\ BalanceOrZero(vault, vault.prev_result[1]) >= vault.prev_result[2]

\* C18: an instruction without input list withdraws exactly the previous
\* result's asset and amount from the ledger and forwards that single payment
\* to the venue; without a previous result, or with less of its asset in the
\* ledger than its amount, the batch aborts.
C18_PrevResultForwarded ==
    [][/\ (pc = "withdraw" /\ NoInputList) =>
            IF PrevResultCovered
            THEN /\ pc' = "dispatch"
                 /\ payments' = <<vault.prev_result>>
                 /\ \A t \in EngineTokens :
                       BalanceOrZero(vault', t) =
                           BalanceOrZero(vault, t)
                               - (IF t = vault.prev_result[1] THEN vault.prev_result[2] ELSE 0)
            ELSE pc' = "aborted" /\ err' # "none"
       /\ (pc = "dispatch" /\ NoInputList /\ Len(log') > Len(log)) =>
            log'[Len(log')].a = <<vault.prev_result>>]_vars

\* C19: in a pre-balanced liquidity dispatch, what the add-liquidity call
\* returns in the batch's output asset is deposited into the ledger, what it
\* returns in any other asset is added to that asset's admin fee pool and not
\* to the ledger, and the output of the pre-swap is not deposited: from the
\* withdrawal of the inputs to the result handling the ledger does not change.
C19_LpResultsRouted ==
    [][/\ pc = "deposit_lp" =>
            \A t \in EngineTokens :
               /\ BalanceOrZero(vault', t) = BalanceOrZero(vault, t)
                     + (IF t = batch.token_out_id THEN TotalOf(back, t) ELSE 0)
               /\ AdminFeeOrZero(storage', t) = AdminFeeOrZero(storage, t)
                     + (IF t = batch.token_out_id THEN 0 ELSE TotalOf(back, t))
       /\ (pc \in {"pre_balance", "add_liquidity"} /\ pc' # "aborted") =>
            vault' = vault /\ storage' = storage]_vars

\* C19 witness: a pre-balanced add-liquidity made its pre-swap, and its final
\* call returned the output asset, now in the ledger, and dust in another
\* asset, now in the admin fee pool.
C19_Witness ==
    /\ err = "none" /\ log # <<>>
    /\ LastStep.kind = "deposit" /\ LastStep.i = 2
    /\ is_zappable_add_liquidity(instr.action)
    /\ Cardinality(StepsOf("call", 2)) = 2
    /\ LastStep.a # <<>> /\ LastStep.b # <<>>
    /\ BalanceOrZero(vault, batch.token_out_id) = Total(LastStep.a)
    /\ AdminFeeOrZero(storage, LastStep.b[1][1]) >= LastStep.b[1][2]
    /\ ~MapContains(vault.balances, LastStep.b[1][1])

-----------------------------------------------------------------------------
(* Properties of the referral records and fee pools, checked under *)
(* SpecConfig and SpecAdmin *)

\* The referral ids and the assets of SpecConfig.
ConfigIds == 1..(MaxReferrals + 1)
ConfigTokens == {"TKB-222222", "LPT-333333"}

\* The last transaction was the fee step of a batch that named a referral which
\* was on record, active and with a fee above zero.
FeeStepWithReferral ==
    /\ op.name = "apply_fees"
    /\ op.arg > 0
    /\ MapContains(storage_pre.referral_config, op.arg)
    /\ storage_pre.referral_config[op.arg].active
    /\ storage_pre.referral_config[op.arg].fee > 0

\* C21: with a referral on record, active and of fee f > 0, apply_fees on an
\* output balance B adds floor(B * f / 10,000) to the referrer's pool and as
\* much to the admin pool of the output asset, takes their sum and no more out
\* of the ledger's output balance (B = 10,000 and f = 100: 100, 100 and 9,800
\* left), and changes no other asset and no other referrer's pool.
C21_ReferralFeeAccrual ==
    (FeeStepWithReferral /\ err = "none") =>
        LET id == op.arg
            token_out == op.token
            B == BalanceOrZero(pre, token_out)
            f == storage_pre.referral_config[id].fee
            referral_fee == (B * f) \div 10000
        IN  /\ ReferrerFeeOrZero(storage, id, token_out)
                  = ReferrerFeeOrZero(storage_pre, id, token_out) + referral_fee
            /\ AdminFeeOrZero(storage, token_out)
                  = AdminFeeOrZero(storage_pre, token_out) + referral_fee
            /\ BalanceOrZero(vault, token_out) = B - 2 * referral_fee
            /\ (B = 10000 /\ f = 100) =>
                  /\ referral_fee = 100
                  /\ BalanceOrZero(vault, token_out) = 9800
            /\ \A t \in ConfigTokens \ {token_out} :
                  /\ BalanceOrZero(vault, t) = BalanceOrZero(pre, t)
                  /\ AdminFeeOrZero(storage, t) = AdminFeeOrZero(storage_pre, t)
                  /\ ReferrerFeeOrZero(storage, id, t) = ReferrerFeeOrZero(storage_pre, id, t)
            /\ \A j \in ConfigIds \ {id} : \A t \in ConfigTokens :
                  ReferrerFeeOrZero(storage, j, t) = ReferrerFeeOrZero(storage_pre, j, t)
            /\ storage.referral_config = storage_pre.referral_config
            /\ storage.static_fee = storage_pre.static_fee

\* C21 witness: the example of the fee accrual, with a second referral on
\* record: 100 units on top of each pool's 7, and 9,800 left of 10,000.
C21_Witness ==
    /\ FeeStepWithReferral /\ err = "none"
    /\ op.arg = 1
    /\ MapContains(storage.referral_config, 2)
    /\ pre.balances["TKB-222222"] = 10000
    /\ storage_pre.referral_config[1].fee = 100
    /\ vault.balances["TKB-222222"] = 9800
    /\ storage.referrer_balances[1]["TKB-222222"] = 107
    /\ storage.admin_fees["TKB-222222"] = 107

\* C22: add_referral and set_referral_fee reject a fee above half of
\* TOTAL_FEE and leave the storage as it was when they do, so that no referral
\* on record has a fee above that half, and apply_fees, which takes the
\* referral fee twice, never fails for want of output balance.
C22_ReferralFeeCap ==
    /\ (op.name \in {"add_referral", "set_referral_fee"} /\ op.arg > TOTAL_FEE \div 2)
          => (err # "none" /\ storage = storage_pre)
    /\ \A id \in DOMAIN storage.referral_config :
          storage.referral_config[id].fee <= TOTAL_FEE \div 2
    /\ op.name = "apply_fees" => err # "InsufficientBalance"

\* What the last transaction paid out, and the pool of referral id before it.
Paid == IF transfers = <<>> THEN <<>> ELSE transfers[1].payments
PaidAssets == {Paid[j][1] : j \in 1..Len(Paid)}
PoolBefore(id) ==
    IF MapContains(storage_pre.referrer_balances, id)
    THEN storage_pre.referrer_balances[id] ELSE <<>>
PoolAfter(id) ==
    IF MapContains(storage.referrer_balances, id) THEN storage.referrer_balances[id] ELSE <<>>

\* The smaller of two numbers.
Min(a, b) == IF a <= b THEN a ELSE b

FeeStepWithoutReferral == op.name = "apply_fees" /\ ~FeeStepWithReferral

\* The pools of all referrals are as they were before the last transaction.
ReferrerPoolsUntouched ==
    \A j \in ConfigIds : \A t \in ConfigTokens :
        ReferrerFeeOrZero(storage, j, t) = ReferrerFeeOrZero(storage_pre, j, t)

\* C37: apply_fees applies exactly one fee scheme per batch: the referral
\* scheme if and only if referral_id > 0 and the record exists, is active and
\* has a fee above zero (then the static fee is not taken on top); otherwise
\* the static fee floor(B * static_bps / 10,000) leaves the output balance for
\* the protocol pool only; with no valid referral and static fee 0 the ledger
\* and both fee pools are unchanged.
C37_OneFeeScheme ==
    op.name = "apply_fees" =>
        LET token_out == op.token
            B == BalanceOrZero(pre, token_out)
            static_fee == (B * storage_pre.static_fee) \div 10000
            taken == B - BalanceOrZero(vault, token_out)
            to_admin == AdminFeeOrZero(storage, token_out)
                            - AdminFeeOrZero(storage_pre, token_out)
            to_referrer == ReferrerFeeOrZero(storage, op.arg, token_out)
                               - ReferrerFeeOrZero(storage_pre, op.arg, token_out)
        IN  /\ err = "none"
            /\ \A t \in ConfigTokens \ {token_out} :
                  /\ BalanceOrZero(vault, t) = BalanceOrZero(pre, t)
                  /\ AdminFeeOrZero(storage, t) = AdminFeeOrZero(storage_pre, t)
            /\ FeeStepWithReferral =>
                  /\ to_referrer
                        = (B * storage_pre.referral_config[op.arg].fee) \div 10000
                  /\ to_admin = to_referrer
                  /\ taken = to_referrer + to_admin
            /\ FeeStepWithoutReferral =>
                  /\ taken = static_fee
                  /\ to_admin = static_fee
                  /\ ReferrerPoolsUntouched
            /\ (FeeStepWithoutReferral /\ storage_pre.static_fee = 0) =>
                  /\ vault = pre
                  /\ storage = storage_pre

\* A batch names a referral on record that has been set inactive while a
\* static fee of 100 is set: of the output balance 10,000 the static fee 100
\* goes to the protocol pool and nothing to the referral.
C37_Witness ==
    /\ FeeStepWithoutReferral /\ err = "none"
    /\ op.arg = 1
    /\ MapContains(storage_pre.referral_config, 1)
    /\ ~storage_pre.referral_config[1].active
    /\ storage_pre.referral_config[1].fee > 0
    /\ storage_pre.static_fee = 100
    /\ pre.balances["TKB-222222"] = 10000
    /\ vault.balances["TKB-222222"] = 9900
    /\ AdminFeeOrZero(storage, "TKB-222222") = AdminFeeOrZero(storage_pre, "TKB-222222") + 100
    /\ ReferrerPoolsUntouched

-----------------------------------------------------------------------------
(* Properties of the pre-swap solver, checked under SpecZap *)

\* The solver has returned; its inputs.
Solved == op.name = "compute_optimal_pre_swap"
In == op.arg

\* C24: compute_optimal_pre_swap returns swap amount 0 whenever a held amount
\* is zero, a reserve is zero, or the fee numerator is above the denominator.
C24_NoSwapShortCircuit ==
    (Solved /\ (\/ In.balance_first = 0 \/ In.balance_second = 0
                \/ In.reserve_first = 0 \/ In.reserve_second = 0
                \/ In.fee[1] > In.fee[2]))
        => ret[2] = 0

\* C24 witness: the search has run on held amounts out of proportion, with a
\* fee numerator above the denominator, and has returned 0.
C24_Witness ==
    /\ Solved
    /\ In.balance_first = 500 /\ In.balance_second = 1
    /\ In.reserve_first = 1000 /\ In.reserve_second = 2000
    /\ In.fee[1] > In.fee[2]
    /\ ret = <<TRUE, 0>>

\* What is left over of the two held amounts once amount has been swapped out
\* of the first one and the pool takes them at its new ratio.
DustAfterSwapFromFirst(in, amount) ==
    LET sim == simulate_swap_output(amount, in.reserve_first, in.reserve_second,
                                    in.fee[1], in.fee[2], in.fee_mode)
        final_first == in.balance_first - amount
        final_second == in.balance_second + sim[1]
        new_reserve_first == in.reserve_first + sim[3]
        new_reserve_second == in.reserve_second - sim[2]
        quote_second == (final_first * new_reserve_second) \div new_reserve_first
    IN  IF quote_second <= final_second THEN final_second - quote_second
        ELSE final_first - ((final_second * new_reserve_first) \div new_reserve_second)

\* C25: with reserves (1000, 2000), held amounts (500, 0) and no fee the solver
\* returns swap_from_first = TRUE and a swap amount after which the held
\* amounts are within one unit of the pool's ratio.
C25_SolverConvergence ==
    (Solved /\ In.reserve_first = 1000 /\ In.reserve_second = 2000
            /\ In.balance_first = 500 /\ In.balance_second = 0 /\ In.fee[1] = 0)
        => /\ ret[1] = TRUE
           /\ DustAfterSwapFromFirst(In, ret[2]) <= 1

\* C26: held amounts in exact proportion to the reserves make the solver
\* return swap amount 0, for every fee and fee mode.
C26_BalancedNoSwap ==
    (Solved /\ In.balance_first * In.reserve_second = In.balance_second * In.reserve_first)
        => ret[2] = 0

\* C26 witness: held amounts above zero, in the proportion of the reserves.
C26_Witness ==
    /\ Solved
    /\ In.balance_first = 50 /\ In.balance_second = 100
    /\ In.reserve_first = 1000 /\ In.reserve_second = 2000
    /\ In.fee = <<3, 1000>> /\ In.fee_mode = OnOutput(1)
    /\ ret = <<TRUE, 0>>

\* C33: when compute_optimal_pre_swap returns an amount above zero,
\* swap_from_first is TRUE exactly when heldA * reserveB > heldB * reserveA and
\* FALSE exactly when heldB * reserveA > heldA * reserveB.
C33_SwapFromExcess ==
    (Solved /\ ret[2] > 0) =>
        LET product_first == In.balance_first * In.reserve_second
            product_second == In.balance_second * In.reserve_first
        IN  /\ ret[1] = TRUE <=> product_first > product_second
            /\ ret[1] = FALSE <=> product_second > product_first

\* C33 witness: the second token is in excess and an amount of it is swapped.
C33_Witness ==
    /\ Solved
    /\ In.balance_first = 50 /\ In.balance_second = 500
    /\ In.reserve_first = 1000 /\ In.reserve_second = 2000
    /\ ret[1] = FALSE /\ ret[2] > 0

\* The held amount of the token the solver swaps from, and of the other one.
HeldOfSwapped == IF ret[1] THEN In.balance_first ELSE In.balance_second
HeldOfOther == IF ret[1] THEN In.balance_second ELSE In.balance_first

\* What add-liquidity is called with after a swap of the returned amount: the
\* rest of the swapped token, and at least the held amount of the other token,
\* with one unit more when a swap has paid something back.
RestOfSwapped == HeldOfSwapped - ret[2]
OtherAtLeast == HeldOfOther + (IF ret[2] > 0 THEN 1 ELSE 0)

\* C39 as stated: for all inputs the returned amount is strictly below the
\* held amount of the token it swaps from, so both amounts passed to
\* add-liquidity are strictly positive.
C39_SwapBelowHeld ==
    Solved =>
        /\ ret[2] < HeldOfSwapped
        /\ RestOfSwapped > 0
        /\ OtherAtLeast > 0

\* C39 for held amounts above zero, which the payments of an add-liquidity
\* step are: the returned amount is strictly below the held amount of the
\* token it swaps from, and both amounts passed to add-liquidity are strictly
\* positive.
C39_SwapBelowPositiveHeld ==
    (Solved /\ In.balance_first > 0 /\ In.balance_second > 0) =>
        /\ ret[2] < HeldOfSwapped
        /\ RestOfSwapped > 0
        /\ OtherAtLeast > 0

\* Held amounts (1, 50) on reserves (100, 2000) with a fee of 3/1000 on the
\* output: the solver swaps 43 of the 50 units of the second token and 7 are
\* left of it.
C39_Witness ==
    /\ Solved
    /\ In.balance_first = 1 /\ In.balance_second = 50
    /\ In.reserve_first = 100 /\ In.reserve_second = 2000
    /\ In.fee = <<3, 1000>> /\ In.fee_mode = OnOutput(0)
    /\ ret = <<FALSE, 43>>
    /\ RestOfSwapped = 7

-----------------------------------------------------------------------------
(* Properties of the search loop, checked under SpecSearch *)

\* The passes that went through the loop's body, and those among them whose
\* dust was computed.
BodyPasses == {k \in 1..Len(log) : ~(log[k].done /\ ~log[k].evaluated)}
EvaluatedPasses == {k \in BodyPasses : log[k].evaluated}

\* C34: binary_search_pre_swap ends after at most 128 passes; every pass that
\* goes on has 0 <= low < mid < high <= the held amount of the token in excess
\* and leaves an interval strictly inside the one it started from.
C34_SearchTerminates ==
    /\ ret.i <= MAX_BINARY_SEARCH_ITERATIONS
    /\ Len(log) <= MAX_BINARY_SEARCH_ITERATIONS + 1
    /\ \A k \in BodyPasses :
          /\ 0 <= log[k].from_low
          /\ log[k].from_low < log[k].mid
          /\ log[k].mid < log[k].from_high
          /\ log[k].from_high <= SearchCall(op.arg).swap_balance
          /\ ~log[k].done =>
                /\ log[k].from_low <= log[k].low
                /\ log[k].high <= log[k].from_high
                /\ log[k].high - log[k].low < log[k].from_high - log[k].from_low
                /\ log[k].low < log[k].high

\* C34 witness: a search over the held amount 500 has ended by convergence
\* after nine passes through the body.
C34_Witness ==
    /\ ret.done
    /\ SearchCall(op.arg).swap_balance = 500
    /\ Cardinality(BodyPasses) = 9
    /\ ret.high <= ret.low + 1

\* quote(a, resA, resB) of the venue, truncating.
Quote(a, resA, resB) == (a * resB) \div resA

\* The dust the venue returns when amount has been swapped: it takes all of the
\* side that is quoted at or below the other one.
SimulatedDust(c, amount) ==
    LET sim == simulate_swap_output(amount, c.reserve_in, c.reserve_out, c.fee_num,
                                    c.fee_denom, c.fee_mode)
        swap_side == c.swap_balance - amount
        other_side == c.other_balance + sim[1]
        res_in == c.reserve_in + sim[3]
        res_out == c.reserve_out - sim[2]
    IN  IF Quote(swap_side, res_in, res_out) <= other_side
        THEN other_side - Quote(swap_side, res_in, res_out)
        ELSE swap_side - Quote(other_side, res_out, res_in)

\* The post-swap balances are exactly in the ratio of the post-swap reserves.
ExactRatio(c, amount) ==
    LET sim == simulate_swap_output(amount, c.reserve_in, c.reserve_out, c.fee_num,
                                    c.fee_denom, c.fee_mode)
    IN  (c.swap_balance - amount) * (c.reserve_out - sim[2])
            = (c.other_balance + sim[1]) * (c.reserve_in + sim[3])

\* C35: the amount binary_search_pre_swap returns is a midpoint at which the
\* post-swap balances are exactly in the ratio of the post-swap reserves, with
\* dust 0; or else the earliest of the evaluated midpoints of smallest dust,
\* when that dust is below the held amount of the token in excess; or else 0.
\* The dust of every evaluated midpoint is that of the truncating quote on the
\* post-swap reserves.
C35_BestCandidate ==
    ret.done =>
        LET c == SearchCall(op.arg)
            exact == {k \in EvaluatedPasses : ExactRatio(c, log[k].mid)}
            lowest == {k \in EvaluatedPasses :
                          \A j \in EvaluatedPasses : log[k].dust <= log[j].dust}
            first_lowest == CHOOSE k \in lowest : \A j \in lowest : k <= j
        IN  /\ \A k \in EvaluatedPasses : log[k].dust = SimulatedDust(c, log[k].mid)
            /\ ret.result = binary_search_pre_swap(op.arg.balance_first, op.arg.balance_second,
                                op.arg.reserve_first, op.arg.reserve_second, op.arg.fee[1],
                                op.arg.fee[2], op.arg.fee_mode, c.swap_from_first)
            /\ IF exact # {}
               THEN /\ exact = {Len(log)}
                    /\ ret.result = log[Len(log)].mid
                    /\ log[Len(log)].dust = 0
               ELSE IF lowest # {} /\ log[first_lowest].dust < c.swap_balance
               THEN ret.result = log[first_lowest].mid
               ELSE ret.result = 0

\* C35 witness: the search has ended by convergence on the earlier of two
\* evaluated midpoints of the same, smallest dust.
C35_Witness ==
    /\ ret.done
    /\ \E k, j \in EvaluatedPasses :
          /\ k < j
          /\ log[k].dust = log[j].dust
          /\ \A l \in EvaluatedPasses : log[k].dust <= log[l].dust
          /\ ret.result = log[k].mid
          /\ ret.result # log[j].mid

-----------------------------------------------------------------------------
(* Properties of the swap simulation, checked under SpecSimulate *)

\* simulate_swap_output has returned; its arguments.
Simulated == op.name = "simulate_swap_output"
Swap == op.arg
SwapInRange ==
    /\ Swap.amount_in > 0 /\ Swap.reserve_in > 0 /\ Swap.reserve_out > 0
    /\ Swap.fee_num <= Swap.fee_denom

\* floor(a / b) for a >= 0, b > 0: the q with q * b <= a < (q + 1) * b.
IsFloor(q, a, b) == q * b <= a /\ a < (q + 1) * b

\* C36: for positive amountIn and reserves and feeNum <= feeDenom,
\* simulate_swap_output equals the reference formulas. Fee on input: output =
\* floor(amountIn * (feeDenom - feeNum) * reserveOut / (reserveIn * feeDenom +
\* amountIn * (feeDenom - feeNum))), the amount leaving the reserve is the
\* output and the amount entering it is amountIn - floor(amountIn *
\* specialFee / feeDenom). Fee on output: rawOutput = floor(amountIn *
\* reserveOut / (reserveIn + amountIn)), output = floor(rawOutput * (feeDenom
\* - totalFee) / feeDenom), the amount leaving is floor(rawOutput * (feeDenom
\* - lpFee) / feeDenom) and the whole amountIn enters the reserve.
C36_ReferenceFormulas ==
    (Simulated /\ SwapInRange) =>
        LET a == Swap.amount_in
            keep == Swap.fee_denom - Swap.fee_num
        IN  IF Swap.mode_kind = "OnInput"
            THEN /\ IsFloor(ret[1], a * keep * Swap.reserve_out,
                            Swap.reserve_in * Swap.fee_denom + a * keep)
                 /\ ret[2] = ret[1]
                 /\ IsFloor(a - ret[3], a * Swap.mode_num, Swap.fee_denom)
            ELSE \E raw \in 0..Swap.reserve_out :
                    /\ IsFloor(raw, a * Swap.reserve_out, Swap.reserve_in + a)
                    /\ IsFloor(ret[1], raw * keep, Swap.fee_denom)
                    /\ IsFloor(ret[2], raw * (Swap.fee_denom - Swap.mode_num),
                               Swap.fee_denom)
                    /\ ret[3] = a

\* A fee-on-input swap of 500 against reserves 999 and 2000 with a total fee
\* of 300/1000 and a special fee of 3/1000: the output 518 leaves the reserve
\* and 499 of the input enters it.
C36_Witness ==
    /\ Simulated /\ SwapInRange
    /\ Swap.amount_in = 500 /\ Swap.reserve_in = 999 /\ Swap.reserve_out = 2000
    /\ Swap.fee_denom = 1000 /\ Swap.fee_num = 300 /\ Swap.mode_num = 3
    /\ Swap.mode_kind = "OnInput"
    /\ ret = <<518, 518, 499>>

\* C40 as stated: for positive amountIn and reserves with feeNum <= feeDenom,
\* lpFee <= feeDenom and specialFee <= feeDenom, the amount leaving the pool
\* is below reserveOut, the amount entering the reserve is at most amountIn
\* and the output never exceeds the amount leaving the reserve.
C40_SimulationBounds ==
    (Simulated /\ SwapInRange /\ Swap.mode_num <= Swap.fee_denom) =>
        /\ ret[2] < Swap.reserve_out
        /\ ret[3] <= Swap.amount_in
        /\ ret[1] <= ret[2]

\* C40 with the fee split of the pair: the same bounds when, in fee-on-output
\* mode, the fee of the liquidity providers is part of the total fee.
C40_SimulationBoundsOfSplitFee ==
    (/\ Simulated /\ SwapInRange /\ Swap.mode_num <= Swap.fee_denom
     /\ Swap.mode_kind = "OnOutput" => Swap.mode_num <= Swap.fee_num) =>
        /\ ret[2] < Swap.reserve_out
        /\ ret[3] <= Swap.amount_in
        /\ ret[1] <= ret[2]
        /\ Swap.reserve_out - ret[2] > 0
        /\ Swap.reserve_in + ret[3] > 0

\* A fee-on-output swap whose total fee is above the fee of the liquidity
\* providers: the output is strictly below the amount leaving the reserve.
C40_Witness ==
    /\ Simulated /\ SwapInRange
    /\ Swap.mode_kind = "OnOutput"
    /\ Swap.mode_num < Swap.fee_num
    /\ 0 < ret[1] /\ ret[1] < ret[2] /\ ret[2] < Swap.reserve_out

-----------------------------------------------------------------------------
(* Properties of the decoder, checked under SpecDecode *)

\* The decoder has returned; its tuple.
DecodedTuple == op.name = "decode_compact_instruction"
Tuple == op.arg
KnownAction == Tuple[1] \in 0..24

\* C27: decode_compact_instruction fails with InvalidAction exactly when the
\* action byte is outside 0..24; with an action byte in 0..24 its only failure
\* is a registry index out of range, and the Instruction it yields carries the
\* action tag assigned to the byte.
C27_InvalidActionExactly ==
    DecodedTuple =>
        /\ (ret.err = "InvalidAction") <=> ~KnownAction
        /\ KnownAction => ret.err \in {"none", "IndexOutOfRange"}
        /\ (KnownAction /\ ret.err = "none")
               => ret.val.action.tag = CompactActions[Tuple[1] + 1]

\* C27 witness: the last action byte, 24, has been decoded to a HatomSupply
\* instruction.
C27_Witness ==
    /\ DecodedTuple
    /\ Tuple[1] = 24
    /\ ret.err = "none"
    /\ ret.val.action.tag = "HatomSupply"

\* The byte that holds the index of the first input's asset, and the byte that
\* holds its mode, in the layout of the action.
InputTokenByte(a, t) ==
    IF needs_output_token(a) \/ needs_output_count(a) THEN t[3] ELSE t[2]
InputModeByte(a, t) ==
    IF needs_output_token(a) \/ needs_output_count(a) THEN t[4]
    ELSE IF is_multi_input_add_liquidity(a) THEN t[5]
    ELSE IF needs_pair_id(a) THEN t[4]
    ELSE t[3]

\* C28: in every action category the decoded Instruction has no input list
\* when the mode is PrevAmount and the index of the input asset is IDX_NONE,
\* and a non-empty input list in every other case.
C28_PrevInputOmitted ==
    (DecodedTuple /\ KnownAction /\ ret.err = "none") =>
        LET a == CompactActions[Tuple[1] + 1]
            chained == /\ CompactMode_from_u8(InputModeByte(a, Tuple)).kind = "Prev"
                       /\ InputTokenByte(a, Tuple) = IDX_NONE
        IN  /\ chained <=> ~ret.val.inputs.some
            /\ ret.val.inputs.some => Len(ret.val.inputs.list) > 0

\* The actions whose venue get_proxy_call derives from the assets or knows.
AutoVenueActions ==
    {"XExchangeSwap", "XExchangeAddLiquidity", "OneDexSwap", "OneDexAddLiquidity",
     "OneDexRemoveLiquidity", "Wrapping", "UnWrapping", "XoxnoLiquidStaking",
     "LXoxnoLiquidStaking", "HatomLiquidStaking", "HatomRedeem", "HatomSupply"}

\* Two input payments, enough for every action's venue lookup.
TwoPayments == << <<"TKB-222222", 1>>, <<"LPT-333333", 1>> >>

\* C29: for the actions with a derived or fixed venue neither the outcome of
\* decoding nor the venue called depends on the address index; for every other
\* action the venue called is the address registry's entry at the address
\* index, and the call aborts when the tuple supplied none.
C29_AddressResolution ==
    (DecodedTuple /\ KnownAction) =>
        IF CompactActions[Tuple[1] + 1] \in AutoVenueActions THEN
            LET auto == decode_compact_instruction([Tuple EXCEPT ![6] = IDX_AUTO],
                            TokenRegistry, AddressRegistry, AmountRegistry)
            IN  /\ ret.err = auto.err
                /\ ret.err = "none"
                       => get_proxy_call(ret.val, TwoPayments)
                              = get_proxy_call(auto.val, TwoPayments)
        ELSE
            ret.err = "none" =>
                IF ret.val.address.some
                THEN get_proxy_call(ret.val, TwoPayments) = Val(AddressRegistry[Tuple[6] + 1])
                ELSE get_proxy_call(ret.val, TwoPayments).err = "AddressUnwrap"

-----------------------------------------------------------------------------
(* Properties of the mode bytes, checked under SpecMode *)

\* The mode byte has been decoded.
ModeDecoded == op.name = "compact_mode_to_amount_mode"

\* The registry has the slot of index idx (0-based).
HasSlot(idx) == idx < Len(AmountRegistry)

\* The BigUint big, given as limbs, stands for the number v < 2^31.
StandsFor(big, v) ==
    /\ \A k \in 3..Len(big) : big[k] = 0
    /\ Limb(big, 2) < LimbBase \div 2
    /\ Limb(big, 1) + LimbBase * Limb(big, 2) = v

\* C38: every mode byte m decodes to exactly one AmountMode: 0 to All, 1 to
\* PrevAmount, 2..127 to Fixed(amounts[m - 2]) and 128..255 to
\* Ppm(amounts[m - 128]), the registry slot being read as an exact amount for
\* Fixed and as a parts-per-million factor for Ppm.
C38_ModeByteDecoding ==
    ModeDecoded =>
        LET m == op.arg
        IN  /\ m = 0 => (ret.err = "none" /\ ret.val.kind = "All")
            /\ m = 1 => (ret.err = "none" /\ ret.val.kind = "PrevAmount")
            /\ (m \in 2..127 /\ HasSlot(m - 2)) =>
                  /\ ret.err = "none" /\ ret.val.kind = "Fixed"
                  /\ StandsFor(AmountRegistry[m - 2 + 1], ret.val.val)
            /\ (m \in 128..255 /\ HasSlot(m - 128)) =>
                  /\ ret.err = "none" /\ ret.val.kind = "Ppm"
                  /\ StandsFor(AmountRegistry[m - 128 + 1], ret.val.val)

-----------------------------------------------------------------------------
(* Properties of calls in sequence, checked under SpecBatches *)

\* A call has just built its ledger and has made no step yet.
BatchStarted == pc \notin {"idle", "aborted"} /\ log = <<>>

\* The asset a payment is held as in the ledger.
DepositedAsset(payment) ==
    IF payment[1] \in {"", EGLD_TOKEN_IDENTIFIER, EGLD_000000_TOKEN_IDENTIFIER}
    THEN EGLD_000000_TOKEN_IDENTIFIER ELSE payment[1]

\* C30: every batch of a sequence starts with a ledger that holds its own
\* deposit and nothing else, with no previous result, no payments in hand and
\* nothing transferred; of what earlier batches did it sees the storage, that
\* is the referral records and the fee pools, and nothing else.
C30_BatchIsolation ==
    BatchStarted =>
        /\ vault.tokens = << DepositedAsset(batch.payment) >>
        /\ vault.balances = (DepositedAsset(batch.payment) :> batch.payment[3])
        /\ vault.prev_result = None
        /\ payments = <<>> /\ back = <<>> /\ transfers = <<>>
        /\ err = "none"
        /\ storage = storage_pre

\* C30 witness: a second batch has started on a ledger of its deposit alone,
\* after a first batch that has added to the admin fee pool.
C30_Witness ==
    /\ BatchStarted
    /\ op.arg = 1
    /\ AdminFeeOrZero(storage, "TKB-222222") > 7
    /\ vault = deposit(new, EGLD_000000_TOKEN_IDENTIFIER, 100)

-----------------------------------------------------------------------------
(* Properties of Vault::from_payment, checked under SpecPayment *)

\* from_payment has returned or failed on the payment op.arg.
FromPaymentDone == op.name = "from_payment"

-----------------------------------------------------------------------------
(* Properties of the pre-balanced liquidity dispatch, checked under *)
(* SpecPreBalance *)

SwapRequested == op.name = "pre_balance_and_add_liquidity"

\* The amount of token among the two input payments.
HeldOf(ps, token) == IF ps[1][1] = token THEN ps[1][2] ELSE ps[2][2]

\* C32: the solver is called with the held amount of the pool's first token as
\* first balance and that of the pool's second token as second balance, and the
\* intermediate swap pays the token in excess and requests the pool's other
\* token, in whichever order the instruction lists its two inputs.
C32_BalancesMatchReserves ==
    SwapRequested =>
        LET pool == op.arg.pool
        IN  /\ ret.balance_first = HeldOf(op.arg.payments, pool.first_token)
            /\ ret.balance_second = HeldOf(op.arg.payments, pool.second_token)
            /\ ret.swap_amount > 0 =>
                  /\ ret.paid = (IF ret.swap_from_first THEN pool.first_token
                                 ELSE pool.second_token)
                  /\ ret.requested = (IF ret.swap_from_first THEN pool.second_token
                                      ELSE pool.first_token)

-----------------------------------------------------------------------------
(* Further properties of the ledger, checked under SpecVault *)

\* Position of a token in the ordered list of ledger v (0 if absent).
PosOf(v, token) ==
    IF InList(v, token) THEN CHOOSE i \in 1..Len(v.tokens) : v.tokens[i] = token ELSE 0

\* C12: get_all_payments lists exactly one pair per asset present, with its
\* strictly positive balance, in insertion order: an operation keeps the
\* relative order of any two assets present before and after it, a deposit to a
\* present asset leaves the enumeration order as it was, and a deposit of an
\* absent asset (new, or fully withdrawn before) enumerates it last.
C12_EnumerationOrder ==
    LET all == get_all_payments(vault)
        was == get_all_payments(pre)
    IN  /\ Len(all) = Cardinality(DOMAIN vault.balances)
        /\ \A i, j \in 1..Len(all) : all[i][1] = all[j][1] => i = j
        /\ \A i \in 1..Len(all) :
              /\ MapContains(vault.balances, all[i][1])
              /\ all[i][2] = vault.balances[all[i][1]]
              /\ all[i][2] > 0
        /\ op.name \in {"deposit", "withdraw", "withdraw_all", "withdraw_ppm"} =>
              \A i, j \in 1..Len(was), k, l \in 1..Len(all) :
                  (was[i][1] = all[k][1] /\ was[j][1] = all[l][1]) => (i < j <=> k < l)
        /\ (op.name = "deposit" /\ MapContains(pre.balances, op.token)) =>
              [i \in 1..Len(all) |-> all[i][1]] = [i \in 1..Len(was) |-> was[i][1]]
        /\ (op.name = "deposit" /\ ~MapContains(pre.balances, op.token)) =>
              /\ Len(all) = Len(was) + 1
              /\ all[Len(all)][1] = op.token

\* C12 witness: the first of three assets has been fully withdrawn; the two
\* others are enumerated in their old order.
C12_Witness ==
    /\ op.name \in {"withdraw", "withdraw_all", "withdraw_ppm"} /\ err = "none"
    /\ Len(pre.tokens) = 3 /\ pre.tokens[1] = op.token
    /\ get_all_payments(vault) =
          << <<pre.tokens[2], pre.balances[pre.tokens[2]]>>,
             <<pre.tokens[3], pre.balances[pre.tokens[3]]>> >>

=============================================================================
